---------------------------- MODULE Spec2Model ----------------------------
(***************************************************************************)
(* The bitHuman Java streaming client (BithumanStreamingClient): one       *)
(* session over one WebSocket.  Three threads act on the session: the      *)
(* thread running run(), the audio task started by run()                   *)
(* (streamAudioFile) and the WebSocket thread that calls onOpen,           *)
(* onMessage, onClose and onError.  The peer (the streaming server) and    *)
(* the transport are the environment.  Two other programs of the          *)
(* repository are modelled next to it, each with variables of its own:     *)
(* the LiveKit UI example (ConnectionProvider, HomeInner) and the REST     *)
(* example (BitHumanExample).                                              *)
(*                                                                         *)
(* Specifications.                                                         *)
(*   Spec        the client session, the peer sending what it likes.      *)
(*   SpecCodec   one message handed to onMessage.                          *)
(*   SpecLive    the client session under fair scheduling.                 *)
(*   SpecDuplex  the client session with the consumer callbacks as states. *)
(*   SpecServer  the server session (the Python streaming server and its   *)
(*               rendering engine) driven by a client's messages, its      *)
(*               output delivered to the Java client's onMessage.          *)
(*   SpecCounters  connected sessions whose counters start at other        *)
(*               values than zero.                                         *)
(*   SpecStatus  a connected session receiving text messages of every      *)
(*               shape, well-formed or not.                                *)
(*   SpecTolerant  SpecServer with one malformed message in the client's   *)
(*               input.                                                    *)
(*   SpecFailing  SpecServer with a rendering engine that may fail.        *)
(*   SpecStats   a connected session with the statements of the send loop  *)
(*               as separate steps, receiving messages of every kind.      *)
(*   SpecUi      the LiveKit UI example: ConnectionProvider and the        *)
(*               auto-connect effect of HomeInner.                         *)
(*   SpecRest    the REST example: main() and pollUntilReady.              *)
(*                                                                         *)
(* Representation.                                                         *)
(*   - A binary server->client message is the sequence of its bytes        *)
(*     (0..255).  ByteBuffer getters are modelled with Java's widths and   *)
(*     signedness: get()/getShort()/getInt() return signed values.         *)
(*   - A float32 / float64 is identified with its IEEE-754 bit pattern,    *)
(*     written as 4 / 8 bytes, most significant byte first.                *)
(*   - An unsigned 32-bit wire value is a pair of 16-bit halves            *)
(*     [hi, lo]: the integers of TLC are 32-bit signed.                    *)
(*   - PCM data is symbolic: a byte string is a sequence of segments       *)
(*     [src, off, len], "pcm" bytes off..off+len-1 of the audio stream or  *)
(*     "zero" bytes of the freshly allocated buffer, kept in normal form   *)
(*     (no empty segment, adjacent segments merged).  Two byte strings in  *)
(*     normal form are equal for every audio content iff they are the      *)
(*     same sequence of segments.                                          *)
(***************************************************************************)
EXTENDS Integers, Sequences, FiniteSets, TLC

(***************************************************************************)
(* Program constants                                                       *)
(***************************************************************************)
TAG_VIDEO == 1
TAG_AUDIO == 2
TAG_END_OF_SPEECH == 3

SAMPLE_RATE == 16000
BITS_PER_SAMPLE == 16
CHUNK_MS == 100
SAMPLES_PER_CHUNK == (SAMPLE_RATE * CHUNK_MS) \div 1000
BYTES_PER_CHUNK == SAMPLES_PER_CHUNK * (BITS_PER_SAMPLE \div 8)

\* bytes of the fixed header that follow the tag byte
VIDEO_HEADER_REST == 20
AUDIO_HEADER_REST == 17

(***************************************************************************)
(* Bounds of the model                                                     *)
(***************************************************************************)
\* the audio stream holds at most MaxChunks full chunks
MaxChunks == 2
\* at most MaxInbound messages are delivered to the client in one session
MaxInbound == 3
\* payloads of the codec inputs have at most MaxPayload bytes
MaxPayload == 2
\* events of the LiveKit UI in one run
MaxUiEvents == 8
\* a client sends the server at most MaxScript messages
MaxScript == 4

(***************************************************************************)
(* Generic helpers                                                         *)
(***************************************************************************)
Last(s) == s[Len(s)]

Reverse(s) == [i \in 1..Len(s) |-> s[Len(s) + 1 - i]]

Min(a, b) == IF a < b THEN a ELSE b

RECURSIVE Flatten(_)
Flatten(ss) == IF ss = <<>> THEN <<>> ELSE Head(ss) \o Flatten(Tail(ss))

\* the members of a finite set of integers in ascending order
RECURSIVE Ascending(_)
Ascending(S) ==
    IF S = {} THEN <<>>
    ELSE LET m == CHOOSE x \in S : \A y \in S : x <= y
         IN  <<m>> \o Ascending(S \ {m})

(***************************************************************************)
(* java.nio.ByteBuffer reads.  b is the message, p the 1-based index of    *)
(* the next byte to read (the buffer's position + 1).                      *)
(***************************************************************************)
Remaining(b, p) == Len(b) - p + 1

\* the k bytes at p, most significant first according to the byte order
OrderedLE(b, p, k) == Reverse(SubSeq(b, p, p + k - 1))
Ordered(b, p, k) == SubSeq(b, p, p + k - 1)

\* byte get(): signed 8 bit
GetByte(b, p) == IF b[p] >= 128 THEN b[p] - 256 ELSE b[p]

\* short getShort(): signed 16 bit
GetShort(b, p) ==
    LET e == Ordered(b, p, 2)
        v == e[1] * 256 + e[2]
    IN  IF v >= 32768 THEN v - 65536 ELSE v

\* int getInt(): signed 32 bit (two's complement of the four bytes)
GetInt(b, p) ==
    LET e == Ordered(b, p, 4)
        top == IF e[1] >= 128 THEN e[1] - 256 ELSE e[1]
    IN  top * 16777216 + e[2] * 65536 + e[3] * 256 + e[4]

\* float getFloat(), double getDouble(): the bit pattern, MSB first
GetFloat(b, p) == Ordered(b, p, 4)
GetDouble(b, p) == Ordered(b, p, 8)

\* Short.toUnsignedInt, Byte.toUnsignedInt
ShortToUnsignedInt(s) == IF s < 0 THEN s + 65536 ELSE s
ByteToUnsignedInt(x) == IF x < 0 THEN x + 256 ELSE x

(***************************************************************************)
(* The wire layout of the README (server -> client), used to build the     *)
(* client's inputs.  u32 values are [hi, lo] halves.                       *)
(***************************************************************************)
BE16(n) == <<n \div 256, n % 256>>
BEU32(u) == BE16(u.hi) \o BE16(u.lo)
U32Of(n) == [hi |-> n \div 65536, lo |-> n % 65536]
\* the u32 read from four big-endian bytes
U32At(b, p) == [hi |-> b[p] * 256 + b[p + 1], lo |-> b[p + 2] * 256 + b[p + 3]]
\* u32 u, as an unsigned number, is greater than the natural number n
U32Greater(u, n) == u.hi >= 32768 \/ u.hi * 65536 + u.lo > n
\* the Java int n holds the unsigned value u
IntIsU32(n, u) == n >= 0 /\ n \div 65536 = u.hi /\ n % 65536 = u.lo

\* the bytes of a video message with the given header fields and payload
VideoBytes(width, height, fps, jpegLength, timestamp, jpeg) ==
    <<TAG_VIDEO>> \o BE16(width) \o BE16(height) \o fps \o BEU32(jpegLength)
        \o timestamp \o jpeg

\* the bytes of an audio message with the given header fields and payload
AudioBytes(sampleRate, channels, pcmLength, timestamp, pcm) ==
    <<TAG_AUDIO>> \o BEU32(sampleRate) \o <<channels>> \o BEU32(pcmLength)
        \o timestamp \o pcm

EncodeVideo(f) ==
    VideoBytes(f.width, f.height, f.fps, U32Of(Len(f.jpeg)), f.timestamp, f.jpeg)

EncodeAudio(a) ==
    AudioBytes(a.sampleRate, a.channels, U32Of(Len(a.pcm)), a.timestamp, a.pcm)

EncodeEndOfSpeech == <<TAG_END_OF_SPEECH>>

(***************************************************************************)
(* AvatarWebSocket.onMessage(ByteBuffer) and its parsers, as functions of  *)
(* the message: the result names what the handler did (outcome) and the    *)
(* consumer callback it invoked, if any (cbs has zero or one element).     *)
(* An outcome "exception" is a RuntimeException leaving onMessage.         *)
(***************************************************************************)
Dropped(what) == [outcome |-> what, cbs |-> <<>>]

\* a relative get of k bytes at p throws BufferUnderflowException
Underflows(b, p, k) == Remaining(b, p) < k

\* if (buf.remaining() < 20): b is positioned after the tag
VideoHeaderTruncatedLax(b) == Remaining(b, 1) < VIDEO_HEADER_REST
VideoHeaderTruncated(b) == Remaining(b, 2) < VIDEO_HEADER_REST

\* if (buf.remaining() < 17)
AudioHeaderTruncated(b) == Remaining(b, 2) < AUDIO_HEADER_REST

\* if (buf.remaining() < jpegLen), if (buf.remaining() < pcmLen)
PayloadTruncatedStrict(remaining, declared) == remaining <= declared
\* a test for the exact length: if (buf.remaining() != jpegLen)
PayloadLengthDiffers(remaining, declared) == remaining # declared
PayloadTruncated(remaining, declared) == remaining < declared

parseVideoFrame(b) ==
    IF VideoHeaderTruncated(b)
    THEN Dropped("truncated_video_header")
    ELSE IF Underflows(b, 2, 2 + 2 + 4 + 4 + 8)
    THEN Dropped("exception")              \* a getter past the end
    ELSE LET width == ShortToUnsignedInt(GetShort(b, 2))
             height == ShortToUnsignedInt(GetShort(b, 4))
             fps == GetFloat(b, 6)
             jpegLen == GetInt(b, 10)
             timestamp == GetDouble(b, 14)
         IN  IF PayloadTruncated(Remaining(b, 22), jpegLen)
             THEN Dropped("truncated_video_payload")
             ELSE IF jpegLen < 0
             THEN Dropped("exception")     \* new byte[jpegLen]
             ELSE IF Underflows(b, 22, jpegLen)
             THEN Dropped("exception")     \* buf.get(jpegData) past the end
             ELSE [outcome |-> "video",
                   cbs |-> << [cb |-> "video", width |-> width, height |-> height,
                               fps |-> fps, timestamp |-> timestamp,
                               data |-> SubSeq(b, 22, 21 + jpegLen)] >>]

parseAudioChunk(b) ==
    IF AudioHeaderTruncated(b)
    THEN Dropped("truncated_audio_header")
    ELSE IF Underflows(b, 2, 4 + 1 + 4 + 8)
    THEN Dropped("exception")              \* a getter past the end
    ELSE LET sampleRate == GetInt(b, 2)
             channels == ByteToUnsignedInt(GetByte(b, 6))
             pcmLen == GetInt(b, 7)
             timestamp == GetDouble(b, 11)
         IN  IF PayloadTruncated(Remaining(b, 19), pcmLen)
             THEN Dropped("truncated_audio_payload")
             ELSE IF pcmLen < 0
             THEN Dropped("exception")     \* new byte[pcmLen]
             ELSE IF Underflows(b, 19, pcmLen)
             THEN Dropped("exception")     \* buf.get(pcmData) past the end
             ELSE [outcome |-> "audio",
                   cbs |-> << [cb |-> "audio", sampleRate |-> sampleRate,
                               channels |-> channels, timestamp |-> timestamp,
                               data |-> SubSeq(b, 19, 18 + pcmLen)] >>]

\* the switch with the handlers of the two parsed tags exchanged
onMessageBinarySwapped(b) ==
    IF Remaining(b, 1) < 1 THEN Dropped("empty")
    ELSE LET tag == GetByte(b, 1)
         IN  CASE tag = TAG_VIDEO -> parseAudioChunk(b)
               [] tag = TAG_AUDIO -> parseVideoFrame(b)
               [] tag = TAG_END_OF_SPEECH ->
                     [outcome |-> "eos", cbs |-> << [cb |-> "eos"] >>]
               [] OTHER -> Dropped("unknown_tag")

\* the switch whose default branch falls into the end-of-speech branch
onMessageBinaryFallThrough(b) ==
    IF Remaining(b, 1) < 1 THEN Dropped("empty")
    ELSE LET tag == GetByte(b, 1)
         IN  CASE tag = TAG_VIDEO -> parseVideoFrame(b)
               [] tag = TAG_AUDIO -> parseAudioChunk(b)
               [] OTHER -> [outcome |-> "eos", cbs |-> << [cb |-> "eos"] >>]

\* onMessage without  if (buffer.remaining() < 1) return;  the get() of the
\* tag throws BufferUnderflowException on an empty message
onMessageBinaryUnchecked(b) ==
    IF Underflows(b, 1, 1) THEN Dropped("exception")
    ELSE LET tag == GetByte(b, 1)
         IN  CASE tag = TAG_VIDEO -> parseVideoFrame(b)
               [] tag = TAG_AUDIO -> parseAudioChunk(b)
               [] tag = TAG_END_OF_SPEECH ->
                     [outcome |-> "eos", cbs |-> << [cb |-> "eos"] >>]
               [] OTHER -> Dropped("unknown_tag")

onMessageBinary(b) ==
    IF Remaining(b, 1) < 1 THEN Dropped("empty")
    ELSE LET tag == GetByte(b, 1)
         IN  CASE tag = TAG_VIDEO -> parseVideoFrame(b)
               [] tag = TAG_AUDIO -> parseAudioChunk(b)
               [] tag = TAG_END_OF_SPEECH ->
                     [outcome |-> "eos", cbs |-> << [cb |-> "eos"] >>]
               [] OTHER -> Dropped("unknown_tag")


\* gson.fromJson(message, JsonObject.class) on the text messages of the
\* model: what the parse gives (a syntax error, the JSON null of an empty
\* text, an array, an object) and, for an object, what its members "type"
\* and "message" are
gsonFromJson(t) ==
    CASE t = "{\"type\":\"connected\",\"message\":\"ready\"}" ->
            [kind |-> "object", type |-> "string", message |-> "string"]
      [] t = "{\"type\":\"error\",\"message\":\"engine failed\"}" ->
            [kind |-> "object", type |-> "string", message |-> "string"]
      [] t = "{\"frames\":3}" ->
            [kind |-> "object", type |-> "absent", message |-> "absent"]
      [] t = "{\"type\":null}" ->
            [kind |-> "object", type |-> "null", message |-> "absent"]
      [] t = "[1,2]" ->
            [kind |-> "array", type |-> "absent", message |-> "absent"]
      [] t = "" ->
            [kind |-> "null", type |-> "absent", message |-> "absent"]
      [] OTHER ->
            [kind |-> "syntax_error", type |-> "absent", message |-> "absent"]

\* onMessage(String): the body of the try, and the catch of Exception
onMessageText(t) ==
    LET json == gsonFromJson(t)
    IN  IF json.kind \in {"syntax_error", "array"}
        THEN "non_json"    \* fromJson threw, logged at debug
        ELSE IF json.kind = "null"
        THEN "non_json"    \* json.has on null threw, logged at debug
        ELSE IF json.type = "null" \/ json.message = "null"
        THEN "non_json"    \* getAsString of a JSON null threw
        ELSE "status"      \* logged at info with its type, or "unknown"

(***************************************************************************)
(* Symbolic PCM byte strings (see the head of the module)                  *)
(***************************************************************************)
SegLen(s) == IF s = <<>> THEN 0
             ELSE LET RECURSIVE Sum(_)
                      Sum(i) == IF i = 0 THEN 0 ELSE s[i].len + Sum(i - 1)
                  IN  Sum(Len(s))

RECURSIVE SegNorm(_)
SegNorm(s) ==
    IF s = <<>> THEN <<>>
    ELSE IF Head(s).len = 0 THEN SegNorm(Tail(s))
    ELSE LET rest == SegNorm(Tail(s))
         IN  IF rest # <<>> /\ Head(rest).src = Head(s).src
                /\ Head(rest).off = Head(s).off + Head(s).len
             THEN <<[Head(s) EXCEPT !.len = @ + Head(rest).len]>> \o Tail(rest)
             ELSE <<Head(s)>> \o rest

\* the first n bytes of s
RECURSIVE SegTake(_, _)
SegTake(s, n) ==
    IF n <= 0 \/ s = <<>> THEN <<>>
    ELSE IF Head(s).len <= n
    THEN <<Head(s)>> \o SegTake(Tail(s), n - Head(s).len)
    ELSE <<[Head(s) EXCEPT !.len = n]>>

\* s without its first n bytes
RECURSIVE SegDrop(_, _)
SegDrop(s, n) ==
    IF n <= 0 \/ s = <<>> THEN s
    ELSE IF Head(s).len <= n THEN SegDrop(Tail(s), n - Head(s).len)
    ELSE <<[Head(s) EXCEPT !.off = @ + n, !.len = @ - n]>> \o Tail(s)

\* bytes off..off+n-1 of the PCM stream
Pcm(off, n) == SegNorm(<<[src |-> "pcm", off |-> off, len |-> n]>>)

\* new byte[BYTES_PER_CHUNK]
NewBuf == <<[src |-> "zero", off |-> 0, len |-> BYTES_PER_CHUNK]>>

(***************************************************************************)
(* streamAudioFile: the pieces of the send loop                            *)
(***************************************************************************)
\* pcmStream.read(buf, 0, buf.length) at stream position p of a stream of n
\* bytes: the number of bytes read, -1 at the end of the stream.  The stream
\* is read from a file: a read fills the buffer unless the stream ends.
StreamRead(n, p) == IF n - p > 0 THEN Min(BYTES_PER_CHUNK, n - p) ELSE -1

\* buf after that read stored r bytes at its start
BufAfterRead(b, p, r) ==
    IF r > 0 THEN SegNorm(Pcm(p, r) \o SegDrop(b, r)) ELSE b

\* the loop condition: (read = ...) > 0 && connected.get()
LoopContinues(r, conn) == r > 0 /\ conn

\* byte[] chunk = (read == buf.length) ? buf : Arrays.copyOf(buf, read)
ChunkNoCopy(b, r) == b
Chunk(b, r) == IF r = SegLen(b) THEN b ELSE SegNorm(SegTake(b, r))

\* the client -> server messages
BinaryMsg(data) == [kind |-> "binary", data |-> data]
sendJson(type) == [kind |-> "text", type |-> type]

EndSignal == [kind |-> "text", type |-> "end"]

IsBinary(m) == m.kind = "binary"

(***************************************************************************)
(* Inputs                                                                  *)
(***************************************************************************)
\* lengths of the PCM stream: at and just after the multiples of the chunk size
PcmLengths ==
    { k * BYTES_PER_CHUNK + r : k \in 0..(MaxChunks - 1),
                                r \in {0, 2} }
        \cup { MaxChunks * BYTES_PER_CHUNK }

RECURSIVE SeqsUpTo(_, _)
SeqsUpTo(S, n) ==
    IF n = 0 THEN { <<>> }
    ELSE LET shorter == SeqsUpTo(S, n - 1)
         IN  shorter \cup { Append(s, x) : s \in { t \in shorter : Len(t) = n - 1 }, x \in S }

Payloads == SeqsUpTo({0, 255}, MaxPayload)

\* float32 25.0 and a NaN-free odd pattern; float64 1.7e9 and another
FloatBits == { <<65, 200, 0, 0>>, <<1, 2, 3, 128>> }
DoubleBits == { <<65, 217, 84, 252, 64, 0, 0, 0>>, <<128, 7, 6, 5, 4, 3, 2, 1>> }

U16Samples == {0, 255, 256, 32768, 65535}
U32Samples == { [hi |-> 0, lo |-> 0], [hi |-> 0, lo |-> 16000],
                [hi |-> 32767, lo |-> 65535], [hi |-> 32768, lo |-> 0],
                [hi |-> 65535, lo |-> 65535] }
U8Samples == {0, 1, 128, 255}

VideoFrames ==
    [width : U16Samples, height : U16Samples, fps : FloatBits,
     timestamp : DoubleBits, jpeg : Payloads]

AudioOutChunks ==
    [sampleRate : U32Samples, channels : U8Samples,
     timestamp : DoubleBits, pcm : Payloads]

\* a declared payload length next to the payload actually carried
LengthSamples == { U32Of(n) : n \in 0..(MaxPayload + 1) }
                    \cup { [hi |-> 32767, lo |-> 65535], [hi |-> 32768, lo |-> 0],
                           [hi |-> 65535, lo |-> 65535] }

OneFloat == <<65, 200, 0, 0>>
OneDouble == <<65, 217, 84, 252, 64, 0, 0, 0>>

DeclaredVideo ==
    { VideoBytes(1280, 720, OneFloat, l, OneDouble, p) :
        l \in LengthSamples, p \in Payloads }

DeclaredAudio ==
    { AudioBytes(U32Of(SAMPLE_RATE), 1, l, OneDouble, p) :
        l \in LengthSamples, p \in Payloads }

Prefixes(b) == { SubSeq(b, 1, n) : n \in 0..Len(b) }

OtherTags == { <<t>> \o p : t \in {0, 4, 127, 128, 255}, p \in Payloads }

EndOfSpeechMsgs == { EncodeEndOfSpeech \o p : p \in Payloads }

\* the byte strings the codec is applied to besides the encoded frames
RawInputs ==
    DeclaredVideo \cup DeclaredAudio
        \cup UNION { Prefixes(b) : b \in DeclaredVideo \cup DeclaredAudio }
        \cup OtherTags \cup EndOfSpeechMsgs

NoInput == [src |-> "none", frame |-> <<>>, bytes |-> <<>>]

\* the messages a session receives
SessionVideo == EncodeVideo([width |-> 1280, height |-> 720, fps |-> OneFloat,
                             timestamp |-> OneDouble, jpeg |-> <<255, 0>>])
SessionAudio == EncodeAudio([sampleRate |-> U32Of(SAMPLE_RATE), channels |-> 1,
                             timestamp |-> OneDouble, pcm |-> <<0, 255>>])
SessionMsgs ==
    { SessionVideo, SessionAudio, EncodeEndOfSpeech, <<255>> }

TextMsgs == { "{\"type\":\"connected\",\"message\":\"ready\"}" }

\* text messages of every kind: status objects, JSON that is no status
\* object, text that is no JSON
TextSamples ==
    TextMsgs \cup { "{\"type\":\"error\",\"message\":\"engine failed\"}",
                    "{\"frames\":3}", "{\"type\":null}", "[1,2]", "",
                    "{\"type\":" }

(***************************************************************************)
(* State                                                                   *)
(***************************************************************************)
VARIABLES
    runPc,          \* where the thread running run() stands
    finished,       \* the result of doneLatch.await in run()
    cancelled,      \* audioFuture.cancel(true) completed the future
    wsState,        \* the transport: NOT_YET_CONNECTED, CONNECTING, OPEN,
                    \* CLOSING (no longer open, onClose not yet called), CLOSED
    connected,      \* AtomicBoolean connected
    connectLatch,   \* the latches: TRUE once counted down to zero
    doneLatch,
    closeLatch,     \* the library's latch closeBlocking waits on
    audioPc,        \* where the audio task (streamAudioFile) stands
    pcmLen,         \* bytes of the PCM stream of the audio file
    pos,            \* bytes of it read so far
    buf,            \* byte[] buf
    read,           \* int read
    totalSent,      \* long totalSent
    loopExit,       \* why the send loop ended: "none", "eof", "closed"
    sent,           \* the messages the transport accepted, in order
    lateAttempts,   \* sends attempted after the loop saw connected = false
    arrivals,       \* the messages handed to onMessage, in order
    outcomes,       \* what onMessage did with each of them
    callbacks,      \* the consumer callbacks invoked, in order
    videoFramesReceived,
    audioChunksReceived,
    audioChunksSent,
    diag,           \* what onVideoFrame did with its frame number: the file
                    \* written (frame_<n>.jpg) and whether the frame was logged
    input,          \* the codec specification's message under test: where it
                    \* comes from (src), the frame encoded, its bytes
    wsPc,           \* where the WebSocket thread stands: "idle" between two
                    \* events, "callback" inside a consumer callback
    sentAtEntry,    \* Len(sent) when the callback in progress was entered
    srvState,       \* the server session's state
    srvHist,        \* the states the server session has entered, in order
    script,         \* the server's input: the client -> server messages
                    \* (msgs) and the index of the next one to receive (at)
    engineIn,       \* the audio handed to the rendering engine for this utterance
    srvFrames,      \* per-utterance counter: outputs sent for this utterance
    engineOut,      \* the outputs the engine has yielded for this utterance
    wire,           \* server -> client messages sent and not yet delivered
    hasEnvUrl,      \* the LiveKit UI: process.env.NEXT_PUBLIC_LIVEKIT_URL is set
    connectionDetails,  \* ConnectionProvider's state: wsUrl, token,
                    \* shouldConnect, mode
    isClient,       \* HomeInner's state isClient
    timer,          \* the auto-connect timer: <<>> or <<the mode it connects with>>
    fetches,        \* the token fetches in flight: the connect calls awaiting
    uiLog,          \* what the UI has done, in order
    mainPc,         \* the REST example: where main() stands
    pollI,          \* int i of pollUntilReady
    pollStatus,     \* String status of pollUntilReady, and of main() afterwards
    httpBody,       \* the body of the last response
    apiCalls        \* the requests main() has sent, in order

vars == <<runPc, finished, cancelled, wsState, connected, connectLatch,
          doneLatch, closeLatch, audioPc, pcmLen, pos, buf, read, totalSent,
          loopExit, sent, lateAttempts, arrivals, outcomes, callbacks,
          videoFramesReceived, audioChunksReceived, audioChunksSent, diag,
          input, wsPc, sentAtEntry, srvState, srvHist, script, engineIn,
          srvFrames, engineOut, wire, hasEnvUrl, connectionDetails, isClient,
          timer, fetches, uiLog, mainPc, pollI, pollStatus, httpBody,
          apiCalls>>

runVars == <<runPc, finished, cancelled>>
latchVars == <<connected, connectLatch, doneLatch, closeLatch>>
audioVars == <<audioPc, pos, buf, read, totalSent, loopExit, sent,
               lateAttempts, audioChunksSent>>
inboundVars == <<arrivals, outcomes, callbacks, videoFramesReceived,
                 audioChunksReceived, diag>>
wsVars == <<wsPc, sentAtEntry>>
serverVars == <<srvState, srvHist, script, engineIn, srvFrames, engineOut,
                wire>>
uiVars == <<hasEnvUrl, connectionDetails, isClient, timer, fetches, uiLog>>
restVars == <<mainPc, pollI, pollStatus, httpBody, apiCalls>>
\* the other programs of the repository
otherVars == <<uiVars, restVars>>
clientVars == <<runVars, wsState, latchVars, audioVars, inboundVars, pcmLen,
                input, wsVars, serverVars>>

\* a Java String of the REST example: null, or its characters
Null == [null |-> TRUE, chars |-> <<>>]
Str(c) == [null |-> FALSE, chars |-> c]

\* the state of ConnectionProvider after useState(...)
NoConnection ==
    [wsUrl |-> "", token |-> "", shouldConnect |-> FALSE, mode |-> "manual"]

\* the LiveKit UI is not mounted and the REST example has not been started
OthersNotStarted ==
    /\ hasEnvUrl = FALSE /\ connectionDetails = NoConnection
    /\ isClient = FALSE /\ timer = <<>> /\ fetches = <<>> /\ uiLog = <<>>
    /\ mainPc = "start" /\ pollI = 0 /\ pollStatus = Null /\ httpBody = <<>>
    /\ apiCalls = <<>>

\* the server session behind the connection is not part of the client: in the
\* client's specifications the peer may send anything, and these stay as set
PeerUnmodelled ==
    /\ srvState = "Idle" /\ srvHist = <<"Idle">>
    /\ script = [msgs |-> <<>>, at |-> 1]
    /\ engineIn = <<>> /\ srvFrames = 0 /\ engineOut = <<>> /\ wire = <<>>

\* a session that has not connected yet, for an audio file of n PCM bytes,
\* its counters at v, a and c
Session(n, v, a, c) ==
    /\ runPc = "start" /\ finished = FALSE /\ cancelled = FALSE
    /\ wsState = "NOT_YET_CONNECTED"
    /\ connected = FALSE /\ connectLatch = FALSE /\ doneLatch = FALSE
    /\ closeLatch = FALSE
    /\ audioPc = "idle" /\ pcmLen = n /\ pos = 0 /\ buf = NewBuf /\ read = 0
    /\ totalSent = 0 /\ loopExit = "none" /\ sent = <<>> /\ lateAttempts = 0
    /\ arrivals = <<>> /\ outcomes = <<>> /\ callbacks = <<>>
    /\ videoFramesReceived = v /\ audioChunksReceived = a
    /\ audioChunksSent = c /\ diag = <<>>
    /\ wsPc = "idle" /\ sentAtEntry = 0

\* the state after the constructor: new AtomicLong(0)
Constructed(n) == Session(n, 0, 0, 0)

Init == /\ \E n \in PcmLengths : Constructed(n)
        /\ input = NoInput /\ OthersNotStarted
        /\ PeerUnmodelled

(***************************************************************************)
(* run()                                                                   *)
(***************************************************************************)
\* ws = new AvatarWebSocket(serverUri); ws.connectBlocking(10 s) starts
RunConnect ==
    /\ runPc = "start"
    /\ runPc' = "connecting"
    /\ wsState' = "CONNECTING"
    /\ UNCHANGED <<finished, cancelled, latchVars, audioVars, inboundVars,
                   pcmLen, input, otherVars, wsVars, serverVars>>

\* connectBlocking returns: the connect latch was released or 10 s passed
RunConnectReturn ==
    /\ runPc = "connecting"
    /\ runPc' = "check"
    /\ UNCHANGED <<finished, cancelled, wsState, latchVars, audioVars,
                   inboundVars, pcmLen, input, otherVars, wsVars, serverVars>>

\* run() without the test of connected: the audio task is always started
RunCheckConnectedSkipped ==
    /\ runPc = "check"
    /\ runPc' = "await" /\ audioPc' = "load"
    /\ UNCHANGED <<finished, cancelled, wsState, latchVars, pos, buf, read,
                   totalSent, loopExit, sent, lateAttempts, audioChunksSent,
                   inboundVars, pcmLen, input, otherVars, wsVars, serverVars>>

\* if (!connected.get()) throw ...; otherwise the audio task is started
RunCheckConnected ==
    /\ runPc = "check"
    /\ IF connected
       THEN runPc' = "await" /\ audioPc' = "load"
       ELSE runPc' = "failed" /\ audioPc' = audioPc
    /\ UNCHANGED <<finished, cancelled, wsState, latchVars, pos, buf, read,
                   totalSent, loopExit, sent, lateAttempts, audioChunksSent,
                   inboundVars, pcmLen, input, otherVars, wsVars, serverVars>>

\* a run() that lets the audio task finish before it goes on to close
\* (audioFuture.join() after the wait)
RunAwaitDoneJoins ==
    /\ runPc = "await" /\ doneLatch /\ audioPc \in {"done", "error"}
    /\ runPc' = "close" /\ finished' = TRUE
    /\ UNCHANGED <<cancelled, wsState, latchVars, audioVars, inboundVars,
                   pcmLen, input, otherVars, wsVars, serverVars>>

\* doneLatch.await(120 s) returns true
RunAwaitDone ==
    /\ runPc = "await" /\ doneLatch
    /\ runPc' = "close" /\ finished' = TRUE
    /\ UNCHANGED <<cancelled, wsState, latchVars, audioVars, inboundVars,
                   pcmLen, input, otherVars, wsVars, serverVars>>

\* doneLatch.await() with no timeout: it returns when the latch is released
RunAwaitForever ==
    /\ runPc = "await" /\ doneLatch
    /\ runPc' = "close" /\ finished' = TRUE
    /\ UNCHANGED <<cancelled, wsState, latchVars, audioVars, inboundVars,
                   pcmLen, input, otherVars, wsVars, serverVars>>

\* doneLatch.await(120 s) times out
RunAwaitTimeout ==
    /\ runPc = "await" /\ ~doneLatch
    /\ runPc' = "close" /\ finished' = FALSE
    /\ UNCHANGED <<cancelled, wsState, latchVars, audioVars, inboundVars,
                   pcmLen, input, otherVars, wsVars, serverVars>>

\* audioFuture.cancel(true): completes the future if the task has not (a
\* CompletableFuture does not interrupt the thread that runs the task; nothing
\* reads the future afterwards); then ws.closeBlocking() calls close() ...
RunClose ==
    /\ runPc = "close"
    /\ runPc' = "closing"
    /\ cancelled' = (audioPc \notin {"done", "error"})
    /\ wsState' = IF wsState = "OPEN" THEN "CLOSING" ELSE wsState
    /\ UNCHANGED <<finished, latchVars, audioVars, inboundVars, pcmLen, input,
                   otherVars, wsVars, serverVars>>

\* ... and the wait for the close to complete; then the statistics are logged
RunCloseReturn ==
    /\ runPc = "closing" /\ closeLatch
    /\ runPc' = "done"
    /\ UNCHANGED <<finished, cancelled, wsState, latchVars, audioVars,
                   inboundVars, pcmLen, input, otherVars, wsVars, serverVars>>

\* how run() has ended: it returns after logging "Session complete", or it
\* throws the IOException of the failed connect
RunResult ==
    CASE runPc = "done" -> "Session complete"
      [] runPc = "failed" -> "IOException: Failed to connect to server"
      [] OTHER -> "running"

\* doneLatch.await(120 s) returned false: "Timed out waiting for
\* end-of-speech" was logged at warn
TimedOut == runPc \in {"close", "closing", "done"} /\ ~finished

\* the audio task ended in an exception thrown by a send, which the task's
\* catch logged ("Audio streaming error")
SendFailed == audioPc = "error" /\ (read > 0 \/ loopExit # "none")

(***************************************************************************)
(* The transport and the WebSocket thread                                  *)
(***************************************************************************)
\* the handshake completes: onOpen
WsOnOpen ==
    /\ wsState = "CONNECTING" /\ wsPc = "idle"
    /\ wsState' = "OPEN"
    /\ connected' = TRUE /\ connectLatch' = TRUE
    /\ UNCHANGED <<runVars, doneLatch, closeLatch, audioVars, inboundVars,
                   pcmLen, input, otherVars, wsVars, serverVars>>

\* the connection is refused or lost before the handshake completes
PeerRefuse ==
    /\ wsState = "CONNECTING"
    /\ wsState' = "CLOSING"
    /\ UNCHANGED <<runVars, latchVars, audioVars, inboundVars, pcmLen, input,
                   otherVars, wsVars, serverVars>>

\* the peer closes the connection, or the connection is lost
PeerClose ==
    /\ wsState = "OPEN"
    /\ wsState' = "CLOSING"
    /\ UNCHANGED <<runVars, latchVars, audioVars, inboundVars, pcmLen, input,
                   otherVars, wsVars, serverVars>>

\* onClose that connects again (reconnect())
WsOnCloseReconnects ==
    /\ wsState = "CLOSING" /\ wsPc = "idle"
    /\ wsState' = "CONNECTING"
    /\ connected' = FALSE
    /\ connectLatch' = TRUE /\ doneLatch' = TRUE /\ closeLatch' = TRUE
    /\ UNCHANGED <<runVars, audioVars, inboundVars, pcmLen, input, otherVars,
                   wsVars, serverVars>>

\* onClose
WsOnClose ==
    /\ wsState = "CLOSING" /\ wsPc = "idle"
    /\ wsState' = "CLOSED"
    /\ connected' = FALSE
    /\ connectLatch' = TRUE /\ doneLatch' = TRUE /\ closeLatch' = TRUE
    /\ UNCHANGED <<runVars, audioVars, inboundVars, pcmLen, input, otherVars,
                   wsVars, serverVars>>

\* the callback of outcome r with the index of the message it came from
Invoked(r) == [i \in 1..Len(r.cbs) |->
                 [from |-> Len(arrivals) + 1] @@ r.cbs[i]]

\* onEndOfSpeech: doneLatch.countDown() on a latch of count one
onEndOfSpeechNoCountDown(latch) == latch
onEndOfSpeech(latch) == TRUE

\* onVideoFrame with v frames counted before: n = incrementAndGet(); the
\* frame is written to frame_<n>.jpg and every 25th frame is logged
onVideoFrame(v) == [file |-> v + 1, logged |-> (v + 1) % 25 = 0]

\* a handler that takes every 25th frame for the last of the utterance
HandleEvery25th(m, v, a) ==
    LET r == onMessageBinary(m)
        last == r.outcome = "video" /\ (v + 1) % 25 = 0
    IN  [outcome |-> IF last THEN "eos" ELSE r.outcome,
         cbs |-> IF last THEN << [cb |-> "eos"] >> ELSE r.cbs,
         video |-> IF r.outcome = "video" THEN v + 1 ELSE v,
         audio |-> IF r.outcome = "audio" THEN a + 1 ELSE a,
         diag |-> IF r.outcome = "video" THEN <<onVideoFrame(v)>> ELSE <<>>]

\* onMessage(ByteBuffer) and the callback it invokes, for message m with v
\* video frames and a audio chunks counted before: what was done, the
\* callback, the counters afterwards, what onVideoFrame wrote
Handle(m, v, a) ==
    LET r == onMessageBinary(m)
    IN  [outcome |-> r.outcome,
         cbs |-> r.cbs,
         video |-> IF r.outcome = "video" THEN v + 1 ELSE v,
         audio |-> IF r.outcome = "audio" THEN a + 1 ELSE a,
         diag |-> IF r.outcome = "video" THEN <<onVideoFrame(v)>> ELSE <<>>]

\* what onMessage(ByteBuffer) does with message m: the message is decoded and
\* its callback, if any, is invoked on the WebSocket thread
Dispatch(m) ==
    /\ wsState = "OPEN" /\ wsPc = "idle" /\ Len(arrivals) < MaxInbound
    /\ LET r == Handle(m, videoFramesReceived, audioChunksReceived)
       IN  /\ arrivals' = Append(arrivals, [kind |-> "binary", data |-> m])
           /\ outcomes' = Append(outcomes, r.outcome)
           /\ callbacks' = callbacks \o Invoked(r)
           /\ videoFramesReceived' = r.video
           /\ audioChunksReceived' = r.audio
           /\ diag' = diag \o r.diag
           /\ doneLatch' = IF r.outcome = "eos" THEN onEndOfSpeech(doneLatch)
                                                ELSE doneLatch
    /\ UNCHANGED <<runVars, wsState, connected, connectLatch, closeLatch,
                   audioVars, pcmLen, input, otherVars>>

\* onMessage(ByteBuffer) for message m, from entry to return
OnMessageBinary(m) ==
    /\ Dispatch(m)
    /\ UNCHANGED <<wsVars, serverVars>>

\* onMessage(ByteBuffer) for message m up to the consumer callback: the
\* callback has counted the message and goes on with it (a video frame is
\* decoded and written to the output directory)
OnMessageEnter(m) ==
    /\ Dispatch(m)
    /\ wsPc' = IF Len(callbacks') > Len(callbacks) THEN "callback" ELSE "idle"
    /\ sentAtEntry' = Len(sent)
    /\ UNCHANGED serverVars

\* the consumer callback returns, and onMessage with it
OnMessageReturn ==
    /\ wsPc = "callback"
    /\ wsPc' = "idle" /\ sentAtEntry' = 0
    /\ UNCHANGED <<runVars, wsState, latchVars, audioVars, inboundVars,
                   pcmLen, input, otherVars, serverVars>>

\* onMessage(String) that takes a status of type "error" for the end of the
\* session
OnMessageTextEnds(t) ==
    /\ wsState = "OPEN" /\ wsPc = "idle" /\ Len(arrivals) < MaxInbound
    /\ arrivals' = Append(arrivals, [kind |-> "text", text |-> t])
    /\ outcomes' = Append(outcomes, onMessageText(t))
    /\ doneLatch' =
          (doneLatch
             \/ t = "{\"type\":\"error\",\"message\":\"engine failed\"}")
    /\ UNCHANGED <<runVars, wsState, connected, connectLatch, closeLatch,
                   audioVars, callbacks, videoFramesReceived,
                   audioChunksReceived, diag, pcmLen, input, otherVars, wsVars,
                   serverVars>>

\* onMessage(String) for text t
OnMessageText(t) ==
    /\ wsState = "OPEN" /\ wsPc = "idle" /\ Len(arrivals) < MaxInbound
    /\ arrivals' = Append(arrivals, [kind |-> "text", text |-> t])
    /\ outcomes' = Append(outcomes, onMessageText(t))
    /\ UNCHANGED <<runVars, wsState, latchVars, audioVars, callbacks,
                   videoFramesReceived, audioChunksReceived, diag, pcmLen,
                   input, otherVars, wsVars, serverVars>>

(***************************************************************************)
(* The audio task: streamAudioFile                                         *)
(***************************************************************************)
\* the audio file is opened and converted to the target format
AudioLoad ==
    /\ audioPc = "load"
    /\ audioPc' = "read"
    /\ UNCHANGED <<runVars, wsState, latchVars, pos, buf, read, totalSent,
                   loopExit, sent, lateAttempts, audioChunksSent, inboundVars,
                   pcmLen, input, otherVars, wsVars, serverVars>>

\* a task that reports its failure to run(): its handler releases doneLatch
\* (doneLatch.countDown() in the catch)
AudioLoadFailReleases ==
    /\ audioPc = "load"
    /\ audioPc' = "error" /\ doneLatch' = TRUE
    /\ UNCHANGED <<runVars, wsState, connected, connectLatch, closeLatch, pos,
                   buf, read, totalSent, loopExit, sent, lateAttempts,
                   audioChunksSent, inboundVars, pcmLen, input, otherVars,
                   wsVars, serverVars>>

\* AudioSystem.getAudioInputStream throws: logged by the task's catch
AudioLoadFail ==
    /\ audioPc = "load"
    /\ audioPc' = "error"
    /\ UNCHANGED <<runVars, wsState, latchVars, pos, buf, read, totalSent,
                   loopExit, sent, lateAttempts, audioChunksSent, inboundVars,
                   pcmLen, input, otherVars, wsVars, serverVars>>

\* the loop head: read the next chunk, test  read > 0 && connected.get()
AudioRead ==
    /\ audioPc = "read"
    /\ LET r == StreamRead(pcmLen, pos)
       IN  /\ read' = r
           /\ buf' = BufAfterRead(buf, pos, r)
           /\ pos' = IF r > 0 THEN pos + r ELSE pos
           /\ IF LoopContinues(r, connected)
              THEN audioPc' = "send" /\ loopExit' = loopExit
              ELSE /\ audioPc' = "end"
                   /\ loopExit' = IF r > 0 THEN "closed" ELSE "eof"
    /\ UNCHANGED <<runVars, wsState, latchVars, totalSent, sent, lateAttempts,
                   audioChunksSent, inboundVars, pcmLen, input, otherVars,
                   wsVars, serverVars>>

\* a send whose exception is caught inside the loop: the loop goes on
AudioSendSwallows ==
    /\ audioPc = "send"
    /\ IF wsState = "OPEN"
       THEN /\ sent' = Append(sent, BinaryMsg(Chunk(buf, read)))
            /\ totalSent' = totalSent + read
            /\ audioChunksSent' = audioChunksSent + 1
       ELSE UNCHANGED <<sent, totalSent, audioChunksSent>>
    /\ audioPc' = "sleep"
    /\ UNCHANGED <<runVars, wsState, latchVars, pos, buf, read, loopExit,
                   lateAttempts, inboundVars, pcmLen, input, otherVars, wsVars,
                   serverVars>>

\* a send that waits for the WebSocket thread to leave its callback
AudioSendSerialised ==
    /\ audioPc = "send" /\ wsPc = "idle"
    /\ IF wsState = "OPEN"
       THEN /\ sent' = Append(sent, BinaryMsg(Chunk(buf, read)))
            /\ totalSent' = totalSent + read
            /\ audioChunksSent' = audioChunksSent + 1
            /\ audioPc' = "sleep"
       ELSE /\ audioPc' = "error"
            /\ UNCHANGED <<sent, totalSent, audioChunksSent>>
    /\ UNCHANGED <<runVars, wsState, latchVars, pos, buf, read, loopExit,
                   lateAttempts, inboundVars, pcmLen, input, otherVars, wsVars,
                   serverVars>>

\* ws.send(chunk); totalSent += read; audioChunksSent.incrementAndGet().
\* send throws WebsocketNotConnectedException unless the socket is open
AudioSend ==
    /\ audioPc = "send"
    /\ IF wsState = "OPEN"
       THEN /\ sent' = Append(sent, BinaryMsg(Chunk(buf, read)))
            /\ totalSent' = totalSent + read
            /\ audioChunksSent' = audioChunksSent + 1
            /\ audioPc' = "sleep"
       ELSE /\ audioPc' = "error"
            /\ UNCHANGED <<sent, totalSent, audioChunksSent>>
    /\ UNCHANGED <<runVars, wsState, latchVars, pos, buf, read, loopExit,
                   lateAttempts, inboundVars, pcmLen, input, otherVars,
                   wsVars, serverVars>>

\* the loop body with sendJson("end") inside it
AudioSleepSendsEnd ==
    /\ audioPc = "sleep"
    /\ audioPc' = "read"
    /\ sent' = IF wsState = "OPEN" THEN Append(sent, sendJson("end")) ELSE sent
    /\ UNCHANGED <<runVars, wsState, latchVars, pos, buf, read, totalSent,
                   loopExit, lateAttempts, audioChunksSent, inboundVars,
                   pcmLen, input, otherVars, wsVars, serverVars>>

\* Thread.sleep(CHUNK_MS) returns
AudioSleep ==
    /\ audioPc = "sleep"
    /\ audioPc' = "read"
    /\ UNCHANGED <<runVars, wsState, latchVars, pos, buf, read, totalSent,
                   loopExit, sent, lateAttempts, audioChunksSent, inboundVars,
                   pcmLen, input, otherVars, wsVars, serverVars>>

\* after the loop: pcmStream.close(); sendJson("end")
AudioEnd ==
    /\ audioPc = "end"
    /\ lateAttempts' = lateAttempts + (IF loopExit = "closed" THEN 1 ELSE 0)
    /\ IF wsState = "OPEN"
       THEN sent' = Append(sent, sendJson("end")) /\ audioPc' = "done"
       ELSE sent' = sent /\ audioPc' = "error"
    /\ UNCHANGED <<runVars, wsState, latchVars, pos, buf, read, totalSent,
                   loopExit, audioChunksSent, inboundVars, pcmLen, input,
                   otherVars, wsVars, serverVars>>

(***************************************************************************)
(* Specifications                                                          *)
(***************************************************************************)
Next ==
    \/ RunConnect \/ RunConnectReturn \/ RunCheckConnected
    \/ RunAwaitDone \/ RunAwaitTimeout \/ RunClose
    \/ RunCloseReturn
    \/ WsOnOpen \/ PeerRefuse \/ PeerClose \/ WsOnClose
    \/ \E m \in SessionMsgs : OnMessageBinary(m)
    \/ \E t \in TextMsgs : OnMessageText(t)
    \/ AudioLoad \/ AudioLoadFail \/ AudioRead \/ AudioSend \/ AudioSleep
    \/ AudioEnd

Spec == Init /\ [][Next]_vars

\* The steps of the thread running run() and of the audio task
RunStep ==
    \/ RunConnect \/ RunConnectReturn \/ RunCheckConnected
    \/ RunAwaitDone \/ RunAwaitTimeout \/ RunClose \/ RunCloseReturn

AudioStep ==
    \/ AudioLoad \/ AudioLoadFail \/ AudioRead \/ AudioSend \/ AudioSleep
    \/ AudioEnd

\* Scheduling: a thread that can take a step takes one (the waits of run() are
\* bounded by their timeouts, the sleep of the audio task by CHUNK_MS), and a
\* transport that is no longer open ends in onClose.  The peer and the
\* handshake owe nothing.
Fairness ==
    /\ WF_vars(RunStep)
    /\ WF_vars(AudioStep)
    /\ WF_vars(WsOnClose)

\* The session under that scheduling.  What the threads do in the end does
\* not depend on the content of a message but for the end-of-speech marker:
\* the peer sends video frames and markers.
LiveMsgs == { SessionVideo, EncodeEndOfSpeech }

NextLive ==
    \/ RunStep
    \/ WsOnOpen \/ PeerRefuse \/ PeerClose \/ WsOnClose
    \/ \E m \in LiveMsgs : OnMessageBinary(m)
    \/ AudioStep

SpecLive == Init /\ [][NextLive]_vars /\ Fairness

\* The session with the consumer callbacks as steps of their own: the
\* WebSocket thread is inside a callback from OnMessageEnter to
\* OnMessageReturn, and calls nothing else meanwhile.
NextDuplex ==
    \/ RunStep
    \/ WsOnOpen \/ PeerRefuse \/ PeerClose \/ WsOnClose
    \/ \E m \in LiveMsgs : OnMessageEnter(m)
    \/ OnMessageReturn
    \/ AudioStep

SpecDuplex == Init /\ [][NextDuplex]_vars

\* The session observed from counters that stand at a value of
\* CounterStarts: sessions that differ in the values of their counters and
\* in nothing else.  The peer sends frames, chunks and markers.
CounterStarts == {0, 24}

CounterMsgs == { SessionVideo, SessionAudio, EncodeEndOfSpeech }

InitCounters ==
    /\ \E n \in PcmLengths, k \in CounterStarts : Session(n, k, k, k)
    /\ input = NoInput /\ OthersNotStarted
    /\ PeerUnmodelled

NextCounters ==
    \/ RunStep
    \/ WsOnOpen \/ PeerRefuse \/ PeerClose \/ WsOnClose
    \/ \E m \in CounterMsgs : OnMessageBinary(m)
    \/ AudioStep

SpecCounters == InitCounters /\ [][NextCounters]_vars

\* The session in which the peer sends text of every kind between its
\* frames and markers, from the point where run() has connected and started
\* the audio task (of an empty audio file).
InitStatus ==
    /\ runPc = "await" /\ finished = FALSE /\ cancelled = FALSE
    /\ wsState = "OPEN"
    /\ connected = TRUE /\ connectLatch = TRUE /\ doneLatch = FALSE
    /\ closeLatch = FALSE
    /\ audioPc = "load" /\ pcmLen = 0 /\ pos = 0 /\ buf = NewBuf /\ read = 0
    /\ totalSent = 0 /\ loopExit = "none" /\ sent = <<>> /\ lateAttempts = 0
    /\ arrivals = <<>> /\ outcomes = <<>> /\ callbacks = <<>>
    /\ videoFramesReceived = 0 /\ audioChunksReceived = 0
    /\ audioChunksSent = 0 /\ diag = <<>>
    /\ wsPc = "idle" /\ sentAtEntry = 0 /\ input = NoInput
    /\ OthersNotStarted /\ PeerUnmodelled

NextStatus ==
    \/ RunAwaitDone \/ RunAwaitTimeout \/ RunClose \/ RunCloseReturn
    \/ PeerClose \/ WsOnClose
    \/ \E m \in LiveMsgs : OnMessageBinary(m)
    \/ \E t \in TextSamples : OnMessageText(t)
    \/ AudioLoad \/ AudioLoadFail \/ AudioRead \/ AudioEnd

SpecStatus == InitStatus /\ [][NextStatus]_vars

\* The session with the statements of the send loop as steps of their own
\* (ws.send, then the two counters), receiving a frame, a chunk, an empty
\* message, a truncated one and an unknown tag; the peer ends the session.
TruncatedVideo == SubSeq(SessionVideo, 1, Len(SessionVideo) - 1)

StatsMsgs == { SessionVideo, SessionAudio, <<>>, TruncatedVideo, <<255>> }

InitStats ==
    /\ runPc = "await" /\ finished = FALSE /\ cancelled = FALSE
    /\ wsState = "OPEN"
    /\ connected = TRUE /\ connectLatch = TRUE /\ doneLatch = FALSE
    /\ closeLatch = FALSE
    /\ audioPc = "load" /\ pcmLen \in PcmLengths /\ pos = 0 /\ buf = NewBuf
    /\ read = 0
    /\ totalSent = 0 /\ loopExit = "none" /\ sent = <<>> /\ lateAttempts = 0
    /\ arrivals = <<>> /\ outcomes = <<>> /\ callbacks = <<>>
    /\ videoFramesReceived = 0 /\ audioChunksReceived = 0
    /\ audioChunksSent = 0 /\ diag = <<>>
    /\ wsPc = "idle" /\ sentAtEntry = 0 /\ input = NoInput
    /\ OthersNotStarted /\ PeerUnmodelled

\* ws.send(chunk): throws unless the socket is open
AudioSendCall ==
    /\ audioPc = "send"
    /\ IF wsState = "OPEN"
       THEN /\ sent' = Append(sent, BinaryMsg(Chunk(buf, read)))
            /\ audioPc' = "count"
       ELSE /\ audioPc' = "error"
            /\ sent' = sent
    /\ UNCHANGED <<runVars, wsState, latchVars, pos, buf, read, loopExit,
                   totalSent, audioChunksSent, lateAttempts, inboundVars,
                   pcmLen, input, otherVars, wsVars, serverVars>>

\* the counters without the increment of audioChunksSent
AudioCountForgets ==
    /\ audioPc = "count"
    /\ audioPc' = "sleep"
    /\ totalSent' = totalSent + read
    /\ UNCHANGED <<runVars, wsState, latchVars, pos, buf, read, loopExit,
                   sent, audioChunksSent, lateAttempts, inboundVars, pcmLen,
                   input, otherVars, wsVars, serverVars>>

\* totalSent += read; audioChunksSent.incrementAndGet()
AudioCount ==
    /\ audioPc = "count"
    /\ audioPc' = "sleep"
    /\ totalSent' = totalSent + read
    /\ audioChunksSent' = audioChunksSent + 1
    /\ UNCHANGED <<runVars, wsState, latchVars, pos, buf, read, loopExit,
                   sent, lateAttempts, inboundVars, pcmLen, input, otherVars,
                   wsVars, serverVars>>

NextStats ==
    \/ RunAwaitDone \/ RunAwaitTimeout \/ RunClose \/ RunCloseReturn
    \/ PeerClose \/ WsOnClose
    \/ \E m \in StatsMsgs : OnMessageBinary(m)
    \/ AudioLoad \/ AudioRead \/ AudioSendCall \/ AudioCount \/ AudioSleep
    \/ AudioEnd

SpecStats == InitStats /\ [][NextStats]_vars

\* The codec alone: one message of CodecInputs is handed to onMessage in a
\* session that has just connected and started its audio task.
InitCodec ==
    /\ runPc = "await" /\ finished = FALSE /\ cancelled = FALSE
    /\ wsState = "OPEN"
    /\ connected = TRUE /\ connectLatch = TRUE /\ doneLatch = FALSE
    /\ closeLatch = FALSE
    /\ audioPc = "load" /\ pcmLen = 0 /\ pos = 0 /\ buf = NewBuf /\ read = 0
    /\ totalSent = 0 /\ loopExit = "none" /\ sent = <<>> /\ lateAttempts = 0
    /\ arrivals = <<>> /\ outcomes = <<>> /\ callbacks = <<>>
    /\ videoFramesReceived = 0 /\ audioChunksReceived = 0
    /\ audioChunksSent = 0 /\ diag = <<>>
    /\ wsPc = "idle" /\ sentAtEntry = 0 /\ PeerUnmodelled
    /\ OthersNotStarted
    /\ \/ \E f \in VideoFrames :
              input = [src |-> "video", frame |-> f, bytes |-> EncodeVideo(f)]
       \/ \E a \in AudioOutChunks :
              input = [src |-> "audio", frame |-> a, bytes |-> EncodeAudio(a)]
       \/ \E b \in RawInputs :
              input = [src |-> "raw", frame |-> <<>>, bytes |-> b]

DecodeInput == arrivals = <<>> /\ OnMessageBinary(input.bytes)

NextCodec == DecodeInput

SpecCodec == InitCodec /\ [][NextCodec]_vars

(***************************************************************************)
(* The server session (the Python streaming server) with its rendering     *)
(* engine, and a client driving it with audio chunks, `end` and            *)
(* `interrupt`.  The server's messages are delivered to the Java client's  *)
(* onMessage; the Java client itself stays connected and waiting.          *)
(***************************************************************************)
InterruptSignal == sendJson("interrupt")

\* the i-th chunk of audio a client sends
ScriptChunk(i) == BinaryMsg(Pcm((i - 1) * BYTES_PER_CHUNK, BYTES_PER_CHUNK))

\* what the Java client sends for one chunk of audio
HappyScript == << ScriptChunk(1), EndSignal >>

\* The client's side of the protocol, on symbols c (chunk), e (`end`),
\* i (`interrupt`): `end` closes an utterance that has audio, and no audio
\* follows an interrupt sent while an `end` is unanswered (the stale marker
\* could not be told from the next one: the protocol has no utterance id).
WellFormedSymbols(y) ==
    /\ \A k \in 1..Len(y) : y[k] = "e" => k > 1 /\ y[k - 1] = "c"
    /\ \A k \in 1..Len(y) :
          (y[k] = "c" /\ k > 1 /\ y[k - 1] = "i") =>
              \A j \in 1..(k - 1) :
                  (y[j] = "e") => \E l \in (j + 1)..(k - 1) : y[l] = "c"

ChunksBefore(y, k) == Cardinality({ j \in 1..(k - 1) : y[j] = "c" })

MessagesOf(y) ==
    [k \in 1..Len(y) |->
        CASE y[k] = "c" -> ScriptChunk(ChunksBefore(y, k) + 1)
          [] y[k] = "e" -> EndSignal
          [] OTHER -> InterruptSignal]

\* client messages that fail the server's validation: text that is no JSON,
\* and a binary message that is no audio (the bytes of no PCM stream)
MalformedText == [kind |-> "text", type |-> "<no JSON>"]
InvalidAudio ==
    [kind |-> "binary", data |-> <<[src |-> "invalid", off |-> 0, len |-> 1]>>]

Malformed(m) == m \in {MalformedText, InvalidAudio}

WellFormedOnly(s) ==
    LET Passes(m) == ~Malformed(m)
    IN  SelectSeq(s, Passes)

Scripts ==
    { MessagesOf(y) : y \in { z \in SeqsUpTo({"c", "e", "i"}, MaxScript) :
                                 WellFormedSymbols(z) } }

ScriptDone == script.at > Len(script.msgs)
NextMsg == script.msgs[script.at]
Consumed == SubSeq(script.msgs, 1, script.at - 1)
Count(s, x) == Cardinality({ k \in 1..Len(s) : s[k] = x })

\* markers the client has received (on_end_of_speech callbacks)
EosReceived == Count(outcomes, "eos")
\* markers the server has sent
EosSent == EosReceived + Count(wire, EncodeEndOfSpeech)

\* the client sends audio after an `end` only once that `end` was answered
ClientMaySend ==
    LET before == WellFormedOnly(Consumed)
    IN  (IsBinary(NextMsg) /\ before # <<>> /\ Last(before) = EndSignal) =>
            EosReceived >= Count(Consumed, EndSignal)

Enter(st) == srvState' = st /\ srvHist' = Append(srvHist, st)
Stay == UNCHANGED <<srvState, srvHist>>

ClientFrozen ==
    UNCHANGED <<runVars, wsState, latchVars, audioVars, inboundVars, pcmLen,
                input, otherVars, wsVars>>

Received == script' = [script EXCEPT !.at = @ + 1]

\* the server is ready for its next message: an interrupt is dealt with
\* before anything else is read
SrvReady ==
    ~ScriptDone /\ srvState \notin {"Interrupted", "Failed"} /\ ClientMaySend

\* the chunk that begins an utterance only starts the engine's audio input
\* and is not pushed to it
SrvAudioDropsFirst ==
    /\ SrvReady /\ IsBinary(NextMsg) /\ ~Malformed(NextMsg)
    /\ srvState \in {"Idle", "Receiving"}
    /\ IF srvState = "Idle"
       THEN Enter("Receiving") /\ engineIn' = engineIn
       ELSE Stay /\ engineIn' = Append(engineIn, NextMsg.data)
    /\ Received
    /\ UNCHANGED <<srvFrames, engineOut, wire>>
    /\ ClientFrozen

\* an audio chunk arrives: Idle -> Receiving Audio, Receiving -> Receiving;
\* the chunk is pushed to the engine as it is
SrvAudio ==
    /\ SrvReady /\ IsBinary(NextMsg) /\ ~Malformed(NextMsg)
    /\ srvState \in {"Idle", "Receiving"}
    /\ IF srvState = "Idle" THEN Enter("Receiving") ELSE Stay
    /\ engineIn' = Append(engineIn, NextMsg.data)
    /\ Received
    /\ UNCHANGED <<srvFrames, engineOut, wire>>
    /\ ClientFrozen

\* `end` arrives: Receiving Audio -> Flushing
SrvEnd ==
    /\ SrvReady /\ NextMsg = EndSignal /\ srvState = "Receiving"
    /\ Enter("Flushing")
    /\ Received
    /\ UNCHANGED <<engineIn, srvFrames, engineOut, wire>>
    /\ ClientFrozen

\* `interrupt` with an utterance in progress sends an EndOfSpeechMarker
SrvInterruptMarks ==
    /\ SrvReady /\ NextMsg = InterruptSignal
    /\ IF srvState = "Idle" THEN Stay ELSE Enter("Interrupted")
    /\ wire' = IF srvState = "Idle" THEN wire
               ELSE Append(wire, EncodeEndOfSpeech)
    /\ engineIn' = <<>> /\ srvFrames' = 0 /\ engineOut' = <<>>
    /\ Received
    /\ ClientFrozen

\* `interrupt` in every state enters Interrupted
SrvInterruptAlways ==
    /\ SrvReady /\ NextMsg = InterruptSignal
    /\ Enter("Interrupted")
    /\ engineIn' = <<>> /\ srvFrames' = 0 /\ engineOut' = <<>>
    /\ Received
    /\ UNCHANGED wire
    /\ ClientFrozen

\* `interrupt` arrives: from any state with an utterance in progress to
\* Interrupted, the buffered audio and the outputs not yet sent discarded;
\* with no utterance in progress (Idle) nothing happens
SrvInterrupt ==
    /\ SrvReady /\ NextMsg = InterruptSignal
    /\ IF srvState = "Idle"
       THEN Stay /\ UNCHANGED <<engineIn, srvFrames, engineOut>>
       ELSE /\ Enter("Interrupted")
            /\ engineIn' = <<>> /\ srvFrames' = 0 /\ engineOut' = <<>>
    /\ Received
    /\ UNCHANGED wire
    /\ ClientFrozen

\* a message that fails validation ends the connection
SrvMalformedCloses ==
    /\ SrvReady /\ Malformed(NextMsg)
    /\ Received
    /\ wsState' = "CLOSING"
    /\ UNCHANGED <<srvState, srvHist, engineIn, srvFrames, engineOut, wire>>
    /\ UNCHANGED <<runVars, latchVars, audioVars, inboundVars, pcmLen, input,
                   otherVars, wsVars>>

\* a message that fails validation arrives: logged and ignored
SrvMalformed ==
    /\ SrvReady /\ Malformed(NextMsg)
    /\ Received
    /\ UNCHANGED <<srvState, srvHist, engineIn, srvFrames, engineOut, wire>>
    /\ ClientFrozen

\* the engine has dropped the interrupted render: Interrupted -> Idle
SrvDrained ==
    /\ srvState = "Interrupted"
    /\ Enter("Idle")
    /\ UNCHANGED <<script, engineIn, srvFrames, engineOut, wire>>
    /\ ClientFrozen

\* markers the server still owes for the `end`s received or to come
EosOwed ==
    Count(SubSeq(script.msgs, script.at, Len(script.msgs)), EndSignal)
        + (IF srvState \in {"Flushing", "Awaiting"} THEN 1 ELSE 0)

\* the newest output is sent ahead of those still in flight
SrvFrameNewestFirst(m) ==
    /\ srvState \in {"Receiving", "Flushing", "Awaiting"}
    /\ Len(arrivals) + Len(wire) + EosOwed < MaxInbound
    /\ wire' = <<m>> \o wire
    /\ srvFrames' = srvFrames + 1
    /\ engineOut' = Append(engineOut, m)
    /\ UNCHANGED <<srvState, srvHist, script, engineIn>>
    /\ ClientFrozen

\* the engine yields an output (it may yield none): encoded and sent at once
SrvFrame(m) ==
    /\ srvState \in {"Receiving", "Flushing", "Awaiting"}
    /\ Len(arrivals) + Len(wire) + EosOwed < MaxInbound
    /\ wire' = Append(wire, m)
    /\ srvFrames' = srvFrames + 1
    /\ engineOut' = Append(engineOut, m)
    /\ UNCHANGED <<srvState, srvHist, script, engineIn>>
    /\ ClientFrozen

\* outputs are still drained: Flushing -> Awaiting Completion
SrvDrain ==
    /\ srvState = "Flushing"
    /\ Enter("Awaiting")
    /\ UNCHANGED <<script, engineIn, srvFrames, engineOut, wire>>
    /\ ClientFrozen

\* the utterance completes and no marker is sent
SrvCompleteSilent ==
    /\ srvState = "Awaiting"
    /\ Enter("Idle")
    /\ engineIn' = <<>> /\ srvFrames' = 0 /\ engineOut' = <<>>
    /\ UNCHANGED <<script, wire>>
    /\ ClientFrozen

\* the engine signals the utterance complete: the marker is sent, the
\* per-utterance counters reset, Awaiting Completion -> Idle
SrvComplete ==
    /\ srvState = "Awaiting"
    /\ Enter("Idle")
    /\ wire' = Append(wire, EncodeEndOfSpeech)
    /\ engineIn' = <<>> /\ srvFrames' = 0 /\ engineOut' = <<>>
    /\ UNCHANGED script
    /\ ClientFrozen

\* the transport delivers the oldest message in flight to the client
Deliver ==
    /\ wire # <<>>
    /\ Dispatch(Head(wire))
    /\ wire' = Tail(wire)
    /\ UNCHANGED <<wsVars, srvState, srvHist, script, engineIn, srvFrames,
                   engineOut>>

\* the server session at the start, the client connected and about to send
\* the messages ms
ServerSession(ms) ==
    /\ runPc = "await" /\ finished = FALSE /\ cancelled = FALSE
    /\ wsState = "OPEN"
    /\ connected = TRUE /\ connectLatch = TRUE /\ doneLatch = FALSE
    /\ closeLatch = FALSE
    /\ audioPc = "load" /\ pcmLen = 0 /\ pos = 0 /\ buf = NewBuf /\ read = 0
    /\ totalSent = 0 /\ loopExit = "none" /\ sent = <<>> /\ lateAttempts = 0
    /\ arrivals = <<>> /\ outcomes = <<>> /\ callbacks = <<>>
    /\ videoFramesReceived = 0 /\ audioChunksReceived = 0
    /\ audioChunksSent = 0 /\ diag = <<>>
    /\ wsPc = "idle" /\ sentAtEntry = 0 /\ input = NoInput /\ OthersNotStarted
    /\ srvState = "Idle" /\ srvHist = <<"Idle">>
    /\ script = [msgs |-> ms, at |-> 1]
    /\ engineIn = <<>> /\ srvFrames = 0 /\ engineOut = <<>> /\ wire = <<>>

InitServer == \E ms \in Scripts : ServerSession(ms)

NextServer ==
    \/ SrvAudio \/ SrvEnd \/ SrvInterrupt \/ SrvDrained
    \/ \E m \in {SessionVideo, SessionAudio} : SrvFrame(m)
    \/ SrvDrain \/ SrvComplete
    \/ Deliver

\* neither the engine nor the transport fails: the server reads what was
\* sent to it, the engine finishes what it began, messages are delivered
FairServer ==
    /\ WF_vars(SrvAudio \/ SrvEnd \/ SrvInterrupt)
    /\ WF_vars(SrvDrained \/ SrvDrain \/ SrvComplete)
    /\ WF_vars(Deliver)

SpecServer == InitServer /\ [][NextServer]_vars /\ FairServer

\* an engine failure after which the session starts afresh: the marker is
\* sent and the session is Idle again
EngineFailRecovers ==
    /\ srvState # "Failed"
    /\ Enter("Idle")
    /\ wire' = Append(wire, EncodeEndOfSpeech)
    /\ engineIn' = <<>> /\ srvFrames' = 0 /\ engineOut' = <<>>
    /\ UNCHANGED script
    /\ ClientFrozen

\* the rendering engine fails: the session ends (Failed), the server closes
\* the transport with an error status
EngineFail ==
    /\ srvState # "Failed"
    /\ Enter("Failed")
    /\ engineIn' = <<>> /\ srvFrames' = 0 /\ engineOut' = <<>>
    /\ UNCHANGED <<script, wire>>
    /\ ClientFrozen

\* the server's close reaches the client, after what was sent before it
SrvClose == srvState = "Failed" /\ wire = <<>> /\ PeerClose

\* The server session with an engine that may fail at any time.
NextFailing ==
    \/ SrvAudio \/ SrvEnd \/ SrvInterrupt \/ SrvDrained
    \/ SrvFrame(SessionVideo)
    \/ SrvDrain \/ SrvComplete
    \/ Deliver
    \/ EngineFail \/ SrvClose \/ WsOnClose

\* the transport delivers the close, and the client's library then calls
\* onClose; the engine need not fail
SpecFailing ==
    InitServer /\ [][NextFailing]_vars /\ FairServer
        /\ WF_vars(SrvClose) /\ WF_vars(WsOnClose)

\* The server session driven by a client one of whose messages fails
\* validation: a script of fewer than MaxScript - 1 messages with a malformed
\* message put in at any place.
InsertAt(s, k, x) == SubSeq(s, 1, k - 1) \o <<x>> \o SubSeq(s, k, Len(s))

TolerantScripts ==
    UNION { { InsertAt(b, k, x) : k \in 1..(Len(b) + 1),
                                  x \in {MalformedText, InvalidAudio} } :
            b \in { t \in Scripts : Len(t) + 1 < MaxScript } }

InitTolerant == \E ms \in TolerantScripts : ServerSession(ms)

NextTolerant ==
    \/ SrvAudio \/ SrvEnd \/ SrvInterrupt \/ SrvDrained \/ SrvMalformed
    \/ SrvFrame(SessionVideo)
    \/ SrvDrain \/ SrvComplete
    \/ Deliver

SpecTolerant ==
    InitTolerant /\ [][NextTolerant]_vars /\ FairServer /\ WF_vars(SrvMalformed)

(***************************************************************************)
(* The LiveKit UI example: ConnectionProvider (useConnection) and the      *)
(* auto-connect effect of HomeInner.  A state update is followed by the    *)
(* render and the effects it causes, so connect and the effect always see  *)
(* the current state; a token fetch is in flight from the call of fetch    *)
(* to the continuation of connect after its awaits.                        *)
(***************************************************************************)
ConnectionModes == {"env", "manual"}

LIVEKIT_URL == "wss://livekit.example"

\* what the UI did: connect was called (by the auto-connect timer or by a
\* consumer of the context), a call was skipped as a duplicate, a token
\* fetch was issued, setConnectionDetails set a connection, connect threw,
\* disconnect was called.  call is the place in uiLog of the call of connect
\* the event belongs to.
Event(ev, mode, by, call) == [ev |-> ev, mode |-> mode, by |-> by, call |-> call]

\* connect(mode) up to its first await or its end, the state being d: the
\* state afterwards, whether a token fetch was issued, what was done
connect(mode, d) ==
    IF d.shouldConnect /\ d.mode = mode
    THEN [details |-> d, fetch |-> FALSE, did |-> "skip"]
    ELSE IF mode = "env"
    THEN IF ~hasEnvUrl
         THEN [details |-> [d EXCEPT !.mode = mode], fetch |-> FALSE,
               did |-> "throw"]
         ELSE [details |-> [d EXCEPT !.mode = mode], fetch |-> TRUE,
               did |-> "fetch"]
    ELSE [details |-> [wsUrl |-> "", token |-> "", shouldConnect |-> TRUE,
                       mode |-> mode],
          fetch |-> FALSE, did |-> "set"]

\* the dependencies of the auto-connect effect: isClient, shouldConnect,
\* connect (a new function when shouldConnect or mode has changed) and mode
EffectDeps(d, ic) == <<ic, d.shouldConnect, d.mode>>

\* the auto-connect effect after a render with state d and ic, t being the
\* timer pending: with changed dependencies the cleanup clears the timer and
\* the effect sets a new one if (isClient && !shouldConnect)
AutoConnect(d, ic, t) ==
    IF EffectDeps(d, ic) = EffectDeps(connectionDetails, isClient) THEN t
    ELSE IF ic /\ ~d.shouldConnect
    THEN << IF hasEnvUrl THEN "env" ELSE d.mode >>
    ELSE <<>>

\* the state becomes d and ic: render and effects
Render(d, ic, t) ==
    /\ connectionDetails' = d
    /\ isClient' = ic
    /\ timer' = AutoConnect(d, ic, t)

\* a call of connect(mode) by `by`, t being the timer pending
Connect(mode, by, t) ==
    /\ Len(uiLog) + 2 <= MaxUiEvents
    /\ LET r == connect(mode, connectionDetails)
           call == Len(uiLog) + 1
       IN  /\ Render(r.details, isClient, t)
           /\ fetches' = IF r.fetch
                         THEN Append(fetches, [mode |-> mode, call |-> call])
                         ELSE fetches
           /\ uiLog' = uiLog \o << Event("connect", mode, by, call),
                                   Event(r.did, mode, "connect", call) >>
    /\ UNCHANGED <<hasEnvUrl, clientVars, restVars>>

\* HomeInner is mounted: useEffect(() => setIsClient(true), [])
UiMount ==
    /\ ~isClient /\ uiLog = <<>>
    /\ Render(connectionDetails, TRUE, timer)
    /\ uiLog' = << Event("mount", connectionDetails.mode, "react", 0) >>
    /\ UNCHANGED <<hasEnvUrl, fetches, clientVars, restVars>>

\* the auto-connect timer fires after 100 ms
TimerFires ==
    /\ timer # <<>>
    /\ Connect(timer[1], "auto", <<>>)

\* a consumer of the context calls connect(mode)
UserConnect(mode) ==
    /\ isClient
    /\ Connect(mode, "user", timer)

\* disconnect()
disconnect(d) == NoConnection

\* a consumer of the context calls disconnect()
UserDisconnect ==
    /\ isClient /\ Len(uiLog) < MaxUiEvents
    /\ Render(disconnect(connectionDetails), isClient, timer)
    /\ uiLog' = Append(uiLog, Event("disconnect", connectionDetails.mode,
                                     "user", 0))
    /\ UNCHANGED <<hasEnvUrl, fetches, clientVars, restVars>>

Without(s, i) == SubSeq(s, 1, i - 1) \o SubSeq(s, i + 1, Len(s))

FetchOutcomes == {"ok", "http_error", "no_token"}

\* the token fetch i resolves and connect goes on after its awaits: it
\* throws, or sets the connection
FetchResolves(i, outcome) ==
    /\ i \in 1..Len(fetches) /\ Len(uiLog) < MaxUiEvents
    /\ fetches' = Without(fetches, i)
    /\ IF outcome = "ok"
       THEN /\ Render([wsUrl |-> LIVEKIT_URL, token |-> "jwt",
                       shouldConnect |-> TRUE, mode |-> fetches[i].mode],
                      isClient, timer)
            /\ uiLog' = Append(uiLog, Event("set", fetches[i].mode, "fetch",
                                            fetches[i].call))
       ELSE /\ UNCHANGED <<connectionDetails, isClient, timer>>
            /\ uiLog' = Append(uiLog, Event("throw", fetches[i].mode, "fetch",
                                            fetches[i].call))
    /\ UNCHANGED <<hasEnvUrl, clientVars, restVars>>

\* the streaming client has not been started
ClientNotStarted == Constructed(0) /\ input = NoInput /\ PeerUnmodelled

\* the REST example has not been started
RestNotStarted ==
    /\ mainPc = "start" /\ pollI = 0 /\ pollStatus = Null /\ httpBody = <<>>
    /\ apiCalls = <<>>

InitUi ==
    /\ ClientNotStarted /\ RestNotStarted
    /\ hasEnvUrl \in BOOLEAN
    /\ connectionDetails = NoConnection
    /\ isClient = FALSE /\ timer = <<>> /\ fetches = <<>> /\ uiLog = <<>>

NextUi ==
    \/ UiMount \/ TimerFires
    \/ \E m \in ConnectionModes : UserConnect(m)
    \/ UserDisconnect
    \/ \E i \in 1..MaxUiEvents, o \in FetchOutcomes : FetchResolves(i, o)

\* a timer that is set fires, a fetch that was issued resolves
SpecUi ==
    InitUi /\ [][NextUi]_vars /\ WF_vars(TimerFires)
        /\ WF_vars(\E i \in 1..MaxUiEvents, o \in FetchOutcomes :
                      FetchResolves(i, o))

(***************************************************************************)
(* The REST example (BitHumanExample): main() and pollUntilReady.  A Java  *)
(* String is the sequence of its characters; a String variable holds      *)
(* [null |-> TRUE] or the characters.                                      *)
(***************************************************************************)

\* "ready"
READY ==
    << "r", "e", "a", "d", "y" >>

\* "failed"
FAILED ==
    << "f", "a", "i", "l", "e", "d" >>

\* "timeout"
TIMEOUT ==
    << "t", "i", "m", "e", "o", "u", "t" >>

\* the key "status"
STATUS ==
    << "s", "t", "a", "t", "u", "s" >>

\* the key "agent_id"
AGENT_ID ==
    << "a", "g", "e", "n", "t", "_", "i", "d" >>

\* "\"valid\":false"
VALID_FALSE ==
    << "\"", "v", "a", "l", "i", "d", "\"", ":", "f", "a", "l", "s", "e" >>

\* "\"valid\": false"
VALID_FALSE_SPACED ==
    << "\"", "v", "a", "l", "i", "d", "\"", ":", " ", "f", "a", "l", "s",
       "e" >>

\* response bodies of the API

\* {"status":"ready"}
BodyReady ==
    << "{", "\"", "s", "t", "a", "t", "u", "s", "\"", ":", "\"", "r", "e",
       "a", "d", "y", "\"", "}" >>

\* {"agent_id":"A1","status": "failed"}
BodyFailed ==
    << "{", "\"", "a", "g", "e", "n", "t", "_", "i", "d", "\"", ":", "\"",
       "A", "1", "\"", ",", "\"", "s", "t", "a", "t", "u", "s", "\"", ":",
       " ", "\"", "f", "a", "i", "l", "e", "d", "\"", "}" >>

\* {"status":"generating"}
BodyGenerating ==
    << "{", "\"", "s", "t", "a", "t", "u", "s", "\"", ":", "\"", "g", "e",
       "n", "e", "r", "a", "t", "i", "n", "g", "\"", "}" >>

\* {"status":"timeout"}
BodyTimeout ==
    << "{", "\"", "s", "t", "a", "t", "u", "s", "\"", ":", "\"", "t", "i",
       "m", "e", "o", "u", "t", "\"", "}" >>

\* {"status":null}
BodyNullStatus ==
    << "{", "\"", "s", "t", "a", "t", "u", "s", "\"", ":", "n", "u", "l",
       "l", "}" >>

\* {"error":"not ready"}
BodyError ==
    << "{", "\"", "e", "r", "r", "o", "r", "\"", ":", "\"", "n", "o", "t",
       " ", "r", "e", "a", "d", "y", "\"", "}" >>

\* {"valid":true}
BodyValid ==
    << "{", "\"", "v", "a", "l", "i", "d", "\"", ":", "t", "r", "u", "e",
       "}" >>

\* {"valid":false}
BodyInvalid ==
    << "{", "\"", "v", "a", "l", "i", "d", "\"", ":", "f", "a", "l", "s",
       "e", "}" >>

\* {"valid": false}
BodyInvalidSpaced ==
    << "{", "\"", "v", "a", "l", "i", "d", "\"", ":", " ", "f", "a", "l",
       "s", "e", "}" >>

\* {"agent_id":"A1","status":"processing"}
BodyAgent ==
    << "{", "\"", "a", "g", "e", "n", "t", "_", "i", "d", "\"", ":", "\"",
       "A", "1", "\"", ",", "\"", "s", "t", "a", "t", "u", "s", "\"", ":",
       "\"", "p", "r", "o", "c", "e", "s", "s", "i", "n", "g", "\"", "}" >>

\* {"error":"quota"}
BodyNoAgent ==
    << "{", "\"", "e", "r", "r", "o", "r", "\"", ":", "\"", "q", "u", "o",
       "t", "a", "\"", "}" >>

\* int String.indexOf(str, fromIndex) with places counted from 1: the first
\* place at or after from where pat occurs in s, 0 when there is none
RECURSIVE IndexOf(_, _, _)
IndexOf(s, pat, from) ==
    IF from + Len(pat) - 1 > Len(s) THEN 0
    ELSE IF SubSeq(s, from, from + Len(pat) - 1) = pat THEN from
    ELSE IndexOf(s, pat, from + 1)

\* boolean String.contains(str)
Contains(s, pat) == IndexOf(s, pat, 1) # 0

\* extractJsonString(json, key): what stands between the first two quotes
\* after the first colon after the first "key"
extractJsonString(json, key) ==
    LET pattern == <<"\"">> \o key \o <<"\"">>
        idx == IndexOf(json, pattern, 1)
        colon == IndexOf(json, <<":">>, idx + Len(pattern))
        openQuote == IndexOf(json, <<"\"">>, colon + 1)
        closeQuote == IndexOf(json, <<"\"">>, openQuote + 1)
    IN  IF idx = 0 THEN Null
        ELSE IF colon = 0 THEN Null
        ELSE IF openQuote = 0 THEN Null
        ELSE IF closeQuote = 0 THEN Null
        ELSE Str(SubSeq(json, openQuote + 1, closeQuote - 1))

ValidateBodies == { BodyValid, BodyInvalid, BodyInvalidSpaced }
GenerateBodies == { BodyAgent, BodyNoAgent }
StatusBodies == { BodyReady, BodyFailed, BodyGenerating, BodyTimeout,
                  BodyNullStatus, BodyError }

\* int maxAttempts = 60
maxAttempts == 60

\* 1) post("/v1/validate", "{}") and the test of the answer
MainValidate ==
    /\ mainPc = "start"
    /\ \E b \in ValidateBodies :
          /\ httpBody' = b
          /\ mainPc' = IF Contains(b, VALID_FALSE)
                          \/ Contains(b, VALID_FALSE_SPACED)
                       THEN "returned" ELSE "generate"
    /\ apiCalls' = Append(apiCalls, "POST /v1/validate")
    /\ UNCHANGED <<pollI, pollStatus, clientVars, uiVars>>

\* 2) post("/v1/agent/generate", ...) and the test of agent_id
MainGenerate ==
    /\ mainPc = "generate"
    /\ \E b \in GenerateBodies :
          /\ httpBody' = b
          /\ mainPc' = IF extractJsonString(b, AGENT_ID) = Null
                       THEN "returned" ELSE "poll"
    /\ apiCalls' = Append(apiCalls, "POST /v1/agent/generate")
    /\ pollI' = 0
    /\ UNCHANGED <<pollStatus, clientVars, uiVars>>

\* for (...; i <= maxAttempts; ...)
LoopTestInclusive(i) == i <= maxAttempts
\* for (...; i < maxAttempts; ...)
LoopTest(i) == i < maxAttempts

\* if ("ready".equals(status) || "failed".equals(status))
IsFinal(status) == status = Str(READY) \/ status = Str(FAILED)

\* pollUntilReady, the body of the loop up to the sleep: get, extract, test
PollGet ==
    /\ mainPc = "poll" /\ LoopTest(pollI)
    /\ \E b \in StatusBodies :
          /\ httpBody' = b
          /\ pollStatus' = extractJsonString(b, STATUS)
    /\ apiCalls' = Append(apiCalls, "GET /v1/agent/status/{id}")
    /\ mainPc' = IF IsFinal(pollStatus') THEN "polled" ELSE "sleep"
    /\ UNCHANGED <<pollI, clientVars, uiVars>>

\* Thread.sleep(5_000) returns; i++
PollSleep ==
    /\ mainPc = "sleep"
    /\ mainPc' = "poll" /\ pollI' = pollI + 1
    /\ UNCHANGED <<pollStatus, httpBody, apiCalls, clientVars, uiVars>>

\* the loop ends: return "timeout"
PollTimeout ==
    /\ mainPc = "poll" /\ ~LoopTest(pollI)
    /\ mainPc' = "polled" /\ pollStatus' = Str(TIMEOUT)
    /\ UNCHANGED <<pollI, httpBody, apiCalls, clientVars, uiVars>>

\* 3) String status = pollUntilReady(agentId); if (!"ready".equals(status))
MainAfterPoll ==
    /\ mainPc = "polled"
    /\ mainPc' = IF pollStatus = Str(READY) THEN "later" ELSE "returned"
    /\ UNCHANGED <<pollI, pollStatus, httpBody, apiCalls, clientVars, uiVars>>

\* 4) to 9): the later API calls, in order
LaterCalls ==
    << "GET /v1/agent/{id}", "POST /v1/agent/{id}",
       "POST /v1/agent/{id}/speak", "POST /v1/agent/{id}/add-context",
       "POST /v1/dynamics/generate", "POST /v1/files/upload" >>

\* the later calls made so far
LaterMade ==
    Cardinality({ k \in 1..Len(apiCalls) :
                    \E c \in 1..Len(LaterCalls) : apiCalls[k] = LaterCalls[c] })

MainLater ==
    /\ mainPc = "later"
    /\ apiCalls' = Append(apiCalls, LaterCalls[LaterMade + 1])
    /\ httpBody' = BodyAgent
    /\ mainPc' = IF LaterMade + 1 = Len(LaterCalls) THEN "done" ELSE "later"
    /\ UNCHANGED <<pollI, pollStatus, clientVars, uiVars>>

\* HTTP.send throws (IOException, HttpTimeoutException after 30 s) in get
\* or post, or the sleep is interrupted: the exception leaves main()
HttpFails ==
    /\ mainPc \in {"start", "generate", "poll", "sleep", "later"}
    /\ mainPc = "poll" => LoopTest(pollI)
    /\ mainPc' = "thrown"
    /\ UNCHANGED <<pollI, pollStatus, httpBody, apiCalls, clientVars, uiVars>>

\* the LiveKit UI is not mounted
UiNotMounted ==
    /\ hasEnvUrl = FALSE /\ connectionDetails = NoConnection
    /\ isClient = FALSE /\ timer = <<>> /\ fetches = <<>> /\ uiLog = <<>>

InitRest == ClientNotStarted /\ UiNotMounted /\ RestNotStarted

PollStep == PollGet \/ PollSleep \/ PollTimeout

NextRest ==
    \/ MainValidate \/ MainGenerate \/ PollStep \/ MainAfterPoll
    \/ MainLater \/ HttpFails

\* main() runs: each request is answered or fails within its timeout
SpecRest ==
    InitRest /\ [][NextRest]_vars
        /\ WF_vars(MainValidate \/ MainGenerate \/ PollStep
                     \/ MainAfterPoll \/ MainLater)

(***************************************************************************)
(* Vocabulary of the properties                                            *)
(***************************************************************************)
\* the payloads of the binary messages the client has sent, in order
SentChunks ==
    LET bin == SelectSeq(sent, IsBinary)
    IN  [i \in 1..Len(bin) |-> bin[i].data]

EndsSent == Cardinality({ i \in 1..Len(sent) : sent[i] = EndSignal })

\* the callbacks invoked for the i-th arrival
CallbacksFrom(i) ==
    LET FromI(c) == c.from = i
    IN  SelectSeq(callbacks, FromI)

\* the layout of the README: a complete header whose declared payload length,
\* an unsigned 32-bit number, does not exceed the bytes that follow the header
DeclaredVideoLength(b) == U32At(b, 10)
DeclaredAudioLength(b) == U32At(b, 7)
WellFormedVideo(b) ==
    /\ Len(b) >= 21 /\ b[1] = 1
    /\ ~U32Greater(DeclaredVideoLength(b), Len(b) - 21)
WellFormedAudio(b) ==
    /\ Len(b) >= 18 /\ b[1] = 2
    /\ ~U32Greater(DeclaredAudioLength(b), Len(b) - 18)
IsEndOfSpeech(b) == Len(b) >= 1 /\ b[1] = 3

ValidBinary(b) == WellFormedVideo(b) \/ WellFormedAudio(b) \/ IsEndOfSpeech(b)

\* the callback a valid message stands for and the payload it carries
KindOf(b) == CASE b[1] = 1 -> "video" [] b[1] = 2 -> "audio" [] OTHER -> "eos"
PayloadOf(b) ==
    CASE b[1] = 1 -> SubSeq(b, 22, 21 + DeclaredVideoLength(b).hi * 65536
                                      + DeclaredVideoLength(b).lo)
      [] b[1] = 2 -> SubSeq(b, 19, 18 + DeclaredAudioLength(b).hi * 65536
                                      + DeclaredAudioLength(b).lo)
      [] OTHER -> <<>>

IsValidArrival(a) == a.kind = "binary" /\ ValidBinary(a.data)
IsUnknownTag(a) ==
    a.kind = "binary" /\ Len(a.data) >= 1 /\ a.data[1] \notin {1, 2, 3}

(***************************************************************************)
(* C1.  stream(): the binary messages the client has sent are the audio    *)
(* in buffer order; `end` is sent at most once and only as the last        *)
(* message, after the audio task has sent every chunk; and when the audio  *)
(* task finishes with the transport open throughout, what was sent is the  *)
(* whole audio, chunk after chunk, followed by exactly one `end`.  So at   *)
(* most one `end` is ever outstanding.                                     *)
(***************************************************************************)
C1_StreamThenEnd ==
    LET all == Flatten(SentChunks)
    IN  /\ SegNorm(all) = Pcm(0, SegLen(all))
        /\ EndsSent <= 1
        /\ \A i \in 1..Len(sent) :
              /\ sent[i].kind = "text" => sent[i] = EndSignal
              /\ sent[i] = EndSignal =>
                    i = Len(sent) /\ audioPc = "done" /\ loopExit = "eof"
        /\ audioPc = "done" =>
              /\ sent = [i \in 1..Len(SentChunks) |-> BinaryMsg(SentChunks[i])]
                           \o <<EndSignal>>
              /\ SegNorm(all) = Pcm(0, pcmLen)

\* the audio task has sent two chunks and then `end`
C1_Witness ==
    audioPc = "done" /\ Len(sent) = 3 /\ sent[3] = EndSignal

(***************************************************************************)
(* C2.  Tag dispatch: for every non-empty binary message the first byte    *)
(* alone selects the handler.  A well-formed 0x01 message triggers exactly *)
(* one on_video_frame, a well-formed 0x02 message exactly one              *)
(* on_audio_chunk, a 0x03 message exactly one on_end_of_speech; no message *)
(* triggers more than one callback, nor a callback of another tag.         *)
(***************************************************************************)
C2_TagDispatch ==
    \A i \in 1..Len(arrivals) :
        (arrivals[i].kind = "binary" /\ Len(arrivals[i].data) >= 1) =>
            LET b == arrivals[i].data
                cbs == CallbacksFrom(i)
            IN  /\ Len(cbs) <= 1
                /\ \A k \in 1..Len(cbs) :
                      /\ cbs[k].cb = "video" => b[1] = 1
                      /\ cbs[k].cb = "audio" => b[1] = 2
                      /\ cbs[k].cb = "eos" => b[1] = 3
                /\ WellFormedVideo(b) => Len(cbs) = 1 /\ cbs[1].cb = "video"
                /\ WellFormedAudio(b) => Len(cbs) = 1 /\ cbs[1].cb = "audio"
                /\ IsEndOfSpeech(b) => Len(cbs) = 1 /\ cbs[1].cb = "eos"

\* a well-formed video message has been dispatched to on_video_frame
C2_Witness ==
    /\ Len(arrivals) = 1 /\ WellFormedVideo(arrivals[1].data)
    /\ Len(callbacks) = 1 /\ callbacks[1].cb = "video"

(***************************************************************************)
(* C3.  Inbound dispatch order: the callbacks invoked so far are exactly   *)
(* the valid binary messages delivered so far, one callback each, in       *)
(* arrival order, whatever invalid or text messages came in between.       *)
(***************************************************************************)
C3_DispatchOrder ==
    LET valid == Ascending({ i \in 1..Len(arrivals) : IsValidArrival(arrivals[i]) })
    IN  /\ Len(callbacks) = Len(valid)
        /\ \A k \in 1..Len(valid) :
              /\ callbacks[k].from = valid[k]
              /\ callbacks[k].cb = KindOf(arrivals[valid[k]].data)
              /\ callbacks[k].cb # "eos" =>
                    callbacks[k].data = PayloadOf(arrivals[valid[k]].data)

\* a valid message, then an invalid or a text message, then a valid message
\* of another kind: two callbacks, in that order
C3_Witness ==
    /\ Len(arrivals) = 3
    /\ IsValidArrival(arrivals[1]) /\ ~IsValidArrival(arrivals[2])
    /\ IsValidArrival(arrivals[3])
    /\ Len(callbacks) = 2 /\ callbacks[1].cb = "video" /\ callbacks[2].cb = "audio"

(***************************************************************************)
(* C4.  Unknown-tag resilience: the delivery of a binary message whose     *)
(* first byte is none of 1, 2, 3 is logged as an unknown tag and changes   *)
(* nothing else: no callback, no exception, the transport, the latches,    *)
(* run() and the audio task as they were; and every valid message, before  *)
(* or after it, has its one callback.                                      *)
(***************************************************************************)
C4_UnknownTagStep ==
    (Len(arrivals') = Len(arrivals) + 1 /\ IsUnknownTag(Last(arrivals'))) =>
        /\ Last(outcomes') = "unknown_tag"
        /\ UNCHANGED <<callbacks, wsState, latchVars, runVars, audioVars,
                       videoFramesReceived, audioChunksReceived>>

C4_UnknownTagState ==
    \A i \in 1..Len(arrivals) :
        /\ IsUnknownTag(arrivals[i]) =>
              outcomes[i] = "unknown_tag" /\ CallbacksFrom(i) = <<>>
        /\ IsValidArrival(arrivals[i]) => Len(CallbacksFrom(i)) = 1

\* C4: the delivery of an unknown-tag message changes nothing but the log,
\* and every valid message around it is dispatched
C4_UnknownTagDropped == [][C4_UnknownTagStep]_vars /\ []C4_UnknownTagState

\* an audio message, a 0xFF message, an audio message: two audio callbacks
\* and the connection still open
C4_Witness ==
    /\ Len(arrivals) = 3 /\ wsState = "OPEN" /\ connected
    /\ arrivals[1] = [kind |-> "binary", data |-> SessionAudio]
    /\ arrivals[2] = [kind |-> "binary", data |-> <<255>>]
    /\ arrivals[3] = [kind |-> "binary", data |-> SessionAudio]
    /\ Len(callbacks) = 2
    /\ callbacks[1].from = 1 /\ callbacks[2].from = 3

(***************************************************************************)
(* C5.  Truncated-payload detection, as claimed: a 0x01 or 0x02 message    *)
(* with a complete header whose declared payload length (unsigned 32 bit)  *)
(* exceeds the bytes after the header is dropped and logged as a truncated *)
(* payload: no callback and no exception.                                  *)
(***************************************************************************)
C5_TruncatedPayloadDropped ==
    \A i \in 1..Len(arrivals) :
        LET b == arrivals[i].data
        IN  /\ (arrivals[i].kind = "binary" /\ Len(b) >= 21 /\ b[1] = 1
                  /\ U32Greater(DeclaredVideoLength(b), Len(b) - 21)) =>
                    outcomes[i] = "truncated_video_payload"
                       /\ CallbacksFrom(i) = <<>>
            /\ (arrivals[i].kind = "binary" /\ Len(b) >= 18 /\ b[1] = 2
                  /\ U32Greater(DeclaredAudioLength(b), Len(b) - 18)) =>
                    outcomes[i] = "truncated_audio_payload"
                       /\ CallbacksFrom(i) = <<>>

(***************************************************************************)
(* C6.  Truncated-header detection: a 0x01 message of fewer than 21 bytes  *)
(* or a 0x02 message of fewer than 18 bytes is dropped and logged as a     *)
(* truncated header: no getter reads past the end (no exception), no       *)
(* callback, and the session goes on as it was.                            *)
(***************************************************************************)
C6_TruncatedHeaderDropped ==
    \A i \in 1..Len(arrivals) :
        LET b == arrivals[i].data
        IN  /\ (arrivals[i].kind = "binary" /\ Len(b) >= 1 /\ Len(b) < 21
                  /\ b[1] = 1) =>
                    /\ outcomes[i] = "truncated_video_header"
                    /\ CallbacksFrom(i) = <<>>
                    /\ wsState = "OPEN" /\ connected /\ ~doneLatch
            /\ (arrivals[i].kind = "binary" /\ Len(b) >= 1 /\ Len(b) < 18
                  /\ b[1] = 2) =>
                    /\ outcomes[i] = "truncated_audio_header"
                    /\ CallbacksFrom(i) = <<>>
                    /\ wsState = "OPEN" /\ connected /\ ~doneLatch

\* a video message of 20 bytes and an audio message of 17 bytes are dropped
C6_Witness ==
    /\ Len(arrivals) = 1
    /\ \/ Len(arrivals[1].data) = 20 /\ arrivals[1].data[1] = 1
       \/ Len(arrivals[1].data) = 17 /\ arrivals[1].data[1] = 2
    /\ outcomes[1] \in {"truncated_video_header", "truncated_audio_header"}

(***************************************************************************)
(* C7.  Video round-trip: the message that encodes a video frame (tag,     *)
(* u16 width, u16 height, f32 fps, u32 length, f64 timestamp, payload, all *)
(* big-endian) is delivered to on_video_frame once, with the same width,   *)
(* height, fps, timestamp and payload bytes.                               *)
(***************************************************************************)
C7_VideoRoundTrip ==
    (input.src = "video" /\ arrivals # <<>>) =>
        callbacks = << [from |-> 1, cb |-> "video",
                        width |-> input.frame.width,
                        height |-> input.frame.height,
                        fps |-> input.frame.fps,
                        timestamp |-> input.frame.timestamp,
                        data |-> input.frame.jpeg] >>

\* a 65535 x 32768 frame with a payload of MaxPayload bytes has been decoded
C7_Witness ==
    /\ input.src = "video" /\ arrivals # <<>>
    /\ input.frame.width = 65535 /\ input.frame.height = 32768
    /\ Len(input.frame.jpeg) = MaxPayload
    /\ Len(callbacks) = 1 /\ callbacks[1].width = 65535

(***************************************************************************)
(* C8.  Audio round-trip, as claimed: the message that encodes an audio    *)
(* chunk (tag, u32 sample_rate, u8 channels, u32 length, f64 timestamp,    *)
(* payload) is delivered to on_audio_chunk once, with the same             *)
(* sample_rate, channels, timestamp and payload bytes, for every           *)
(* sample_rate in 0..2^32-1.                                               *)
(***************************************************************************)
C8_AudioRoundTrip ==
    (input.src = "audio" /\ arrivals # <<>>) =>
        /\ Len(callbacks) = 1
        /\ callbacks[1].cb = "audio"
        /\ IntIsU32(callbacks[1].sampleRate, input.frame.sampleRate)
        /\ callbacks[1].channels = input.frame.channels
        /\ callbacks[1].timestamp = input.frame.timestamp
        /\ callbacks[1].data = input.frame.pcm

C10_NoSendAfterCloseObserved == lateAttempts = 0

(***************************************************************************)
(* C11.  EndOfSpeechMarker is terminal on the client: a 0x03 message        *)
(* invokes on_end_of_speech once and releases doneLatch; a run() that is    *)
(* waiting then stops waiting with finished = true, calls closeBlocking     *)
(* once, and returns ("Session complete") with the transport closed; once   *)
(* the transport is no longer open no callback is invoked and it never      *)
(* opens again.                                                             *)
(***************************************************************************)
C11_State ==
    /\ \A i \in 1..Len(arrivals) :
          (arrivals[i].kind = "binary" /\ IsEndOfSpeech(arrivals[i].data)) =>
              /\ CallbacksFrom(i) = << [from |-> i, cb |-> "eos"] >>
              /\ doneLatch
    /\ runPc = "done" => wsState = "CLOSED" /\ closeLatch /\ ~connected

C11_Step ==
    /\ (runPc = "await" /\ doneLatch /\ runPc' # runPc) =>
          runPc' = "close" /\ finished'
    /\ runPc' = "closing" => runPc \in {"close", "closing"}
    /\ runPc \in {"closing", "done"} => runPc' \in {"closing", "done"}
    /\ wsState \in {"CLOSING", "CLOSED"} =>
          callbacks' = callbacks /\ wsState' \in {"CLOSING", "CLOSED"}

C11_Live == (runPc = "await" /\ doneLatch) ~> (runPc = "done" /\ finished)

C11_EndOfSpeechTerminal == []C11_State /\ [][C11_Step]_vars /\ C11_Live

\* the audio was streamed, the marker arrived last, run() returned
C11_Witness ==
    /\ runPc = "done" /\ finished /\ audioPc = "done"
    /\ outcomes # <<>> /\ Last(outcomes) = "eos" /\ wsState = "CLOSED"

(***************************************************************************)
(* C12.  Happy path: when the client sends one 3200-byte chunk and then    *)
(* `end`, and neither the engine nor the transport fails, the server       *)
(* session enters Idle, Receiving Audio, Flushing, Awaiting Completion,    *)
(* Idle in that order, and the client eventually receives an               *)
(* EndOfSpeechMarker (on_end_of_speech fires), also when the engine        *)
(* yields no output at all.                                                *)
(***************************************************************************)
HappyStates == <<"Idle", "Receiving", "Flushing", "Awaiting", "Idle">>

IsPrefix(a, b) == Len(a) <= Len(b) /\ a = SubSeq(b, 1, Len(a))

IsHappy == script.msgs = HappyScript

C12_Order == IsHappy => IsPrefix(srvHist, HappyStates)

C12_Marker ==
    IsHappy ~> (srvHist = HappyStates /\ srvState = "Idle" /\ EosReceived >= 1)

C12_HappyPath == []C12_Order /\ C12_Marker

\* the utterance completed with the marker as the only message received
C12_Witness ==
    /\ IsHappy /\ srvHist = HappyStates
    /\ callbacks = << [from |-> 1, cb |-> "eos"] >>
    /\ videoFramesReceived = 0 /\ audioChunksReceived = 0 /\ doneLatch

(***************************************************************************)
(* C13.  Interrupt mid-utterance: when the client sends audio, then        *)
(* `interrupt` before any `end`, then new audio and `end`, the server      *)
(* session goes through Interrupted back to Idle, no EndOfSpeechMarker is  *)
(* sent before the `end` of the second utterance is received, and the      *)
(* second utterance completes with exactly one marker, which the client    *)
(* receives.  In every session a marker answers an `end` received.         *)
(***************************************************************************)
InterruptedStates ==
    <<"Idle", "Receiving", "Interrupted", "Idle",
      "Receiving", "Flushing", "Awaiting", "Idle">>

\* chunks, `interrupt`, chunks, `end`
IsInterruptScenario ==
    LET n == Len(script.msgs)
    IN  /\ n >= 4 /\ script.msgs[n] = EndSignal
        /\ \E k \in 2..(n - 2) :
              /\ script.msgs[k] = InterruptSignal
              /\ \A j \in (1..(n - 1)) \ {k} : IsBinary(script.msgs[j])

C13_State ==
    /\ EosSent <= Count(Consumed, EndSignal)
    /\ IsInterruptScenario =>
          /\ IsPrefix(srvHist, InterruptedStates)
          /\ ~ScriptDone => EosSent = 0
          /\ EosSent <= 1

C13_Live ==
    IsInterruptScenario ~>
        (srvHist = InterruptedStates /\ srvState = "Idle" /\ EosReceived = 1)

C13_InterruptMidUtterance == []C13_State /\ C13_Live

\* the interrupted utterance left no marker, the fresh one completed
C13_Witness ==
    /\ IsInterruptScenario /\ srvHist = InterruptedStates
    /\ EosReceived = 1 /\ wire = <<>>

(***************************************************************************)
(* C14.  Idempotent interrupt: an `interrupt` received while the server    *)
(* session is Idle changes nothing: the session state, what the engine     *)
(* holds and what was sent to the client stay as they were; so after any   *)
(* number of interrupts and nothing else the session is as it began.       *)
(***************************************************************************)
C14_Step ==
    (~ScriptDone /\ script'.at = script.at + 1
        /\ NextMsg = InterruptSignal /\ srvState = "Idle") =>
            UNCHANGED <<srvState, srvHist, engineIn, srvFrames, wire,
                        inboundVars, latchVars, wsState>>

C14_State ==
    (\A k \in 1..Len(Consumed) : Consumed[k] = InterruptSignal) =>
        /\ srvState = "Idle" /\ srvHist = <<"Idle">>
        /\ engineIn = <<>> /\ srvFrames = 0 /\ wire = <<>> /\ arrivals = <<>>

C14_IdempotentInterrupt == [][C14_Step]_vars /\ []C14_State

\* two interrupts were received by an idle session
C14_Witness ==
    /\ script.at = 3
    /\ Consumed = <<InterruptSignal, InterruptSignal>>
    /\ srvHist = <<"Idle">> /\ wire = <<>>

(***************************************************************************)
(* C15.  connect(): when run() tests the connection after the bounded wait *)
(* of connectBlocking (the wait ended by onOpen, by onClose after a        *)
(* refusal, or by the timeout) and the transport is not open, run() fails  *)
(* with the connect error; the failure is final, nothing is ever sent      *)
(* after it, and the audio task is started, and anything sent, only after  *)
(* run() has seen the transport open.                                      *)
(***************************************************************************)
C15_State ==
    /\ runPc = "failed" =>
          audioPc = "idle" /\ sent = <<>> /\ audioChunksSent = 0
    /\ (audioPc # "idle" \/ sent # <<>>) =>
          /\ runPc \in {"await", "close", "closing", "done"}
          /\ connectLatch
          /\ wsState \in {"OPEN", "CLOSING", "CLOSED"}

C15_Step ==
    /\ (runPc = "check" /\ runPc' # runPc) =>
          IF connected THEN runPc' = "await" /\ audioPc' = "load"
                       ELSE runPc' = "failed" /\ audioPc' = "idle"
    /\ runPc' = "await" => (runPc = "await" \/ (runPc = "check" /\ connected))
    /\ runPc = "failed" => runPc' = "failed" /\ sent' = sent /\ audioPc' = "idle"

C15_ConnectFailure == []C15_State /\ [][C15_Step]_vars

\* the wait timed out, run() failed, the handshake completed afterwards:
\* still nothing is sent
C15_Witness ==
    runPc = "failed" /\ wsState = "OPEN" /\ connected /\ sent = <<>>

(***************************************************************************)
(* C16.  Read timeout, as claimed: when the 120 s wait of run() expires    *)
(* before a marker or a close was seen, the session is torn down (the      *)
(* transport closed) and run() ends with a timeout error, so that its      *)
(* result differs from that of a session that completed.                   *)
(***************************************************************************)
C16_TimeoutSurfaced ==
    (TimedOut /\ runPc = "done") =>
        wsState = "CLOSED" /\ RunResult # "Session complete"

(***************************************************************************)
(* C17.  Transport errors, as claimed: a session that was disconnected     *)
(* before the marker arrived, or whose audio task failed in a send on the  *)
(* closed transport, does not end as a completed session: run() returns    *)
(* normally from a wait that ended by itself only if an EndOfSpeechMarker  *)
(* was received and no send failed.                                        *)
(***************************************************************************)
C17_TransportErrorSurfaced ==
    (RunResult = "Session complete" /\ finished) =>
        /\ \E i \in 1..Len(outcomes) : outcomes[i] = "eos"
        /\ ~SendFailed

(***************************************************************************)
(* C18.  No retry inside the core: run() starts the connection once; a     *)
(* transport that is no longer open never connects or opens again and      *)
(* nothing more is sent on it; after a failed connect and after a failed   *)
(* send nothing is sent and the failure stays; no audio byte and no `end`  *)
(* is sent twice.                                                          *)
(***************************************************************************)
C18_Step ==
    /\ wsState' = "CONNECTING" =>
          wsState \in {"NOT_YET_CONNECTED", "CONNECTING"}
    /\ runPc' = "connecting" => runPc \in {"start", "connecting"}
    /\ wsState \in {"CLOSING", "CLOSED"} =>
          wsState' \in {"CLOSING", "CLOSED"} /\ sent' = sent
    /\ runPc = "failed" => runPc' = "failed" /\ sent' = sent
    /\ audioPc = "error" => audioPc' = "error" /\ sent' = sent

C18_State ==
    LET all == Flatten(SentChunks)
    IN  SegNorm(all) = Pcm(0, SegLen(all)) /\ EndsSent <= 1

C18_NoRetry == [][C18_Step]_vars /\ []C18_State

\* the connection was lost after the first chunk, the next send failed,
\* run() has returned: the chunk was sent once and nothing after it
C18_Witness ==
    /\ SendFailed /\ wsState = "CLOSED" /\ runPc = "done"
    /\ Len(sent) = 1 /\ pos > BYTES_PER_CHUNK

(***************************************************************************)
(* C19.  The two directions do not block each other.  While the WebSocket  *)
(* thread is inside a consumer callback, the audio task can take its next  *)
(* step, and at its send the chunk goes out on the open transport; while   *)
(* the audio task sleeps between two chunks or stands at its send, the     *)
(* WebSocket thread, if it is between two events, can take in and dispatch *)
(* the next message.                                                       *)
(***************************************************************************)
AudioRunning == audioPc \in {"load", "read", "send", "sleep", "end"}

C19_DirectionsIndependent ==
    /\ (wsPc = "callback" /\ AudioRunning) => ENABLED AudioStep
    /\ (wsPc = "callback" /\ audioPc = "send" /\ wsState = "OPEN") =>
          ENABLED (AudioSend /\ Len(sent') = Len(sent) + 1)
    /\ (audioPc \in {"sleep", "send"} /\ wsPc = "idle" /\ wsState = "OPEN"
          /\ Len(arrivals) < MaxInbound) =>
              \A m \in LiveMsgs : ENABLED OnMessageEnter(m)

\* a video callback is still running and two chunks were sent since it
\* began; the audio task is in its pacing sleep
C19_Witness ==
    /\ wsPc = "callback" /\ Last(callbacks).cb = "video"
    /\ Len(sent) = sentAtEntry + 2 /\ audioPc = "sleep"

(***************************************************************************)
(* C20.  Cancellation: once run() has called close, the transport ends     *)
(* closed (the receive loop ends with onClose) and run() returns; once the *)
(* transport is closed nothing is received or sent, the audio task is      *)
(* never blocked, begins no further pacing sleep (it finishes at most the  *)
(* one it is in) and terminates; so the audio task that run() cancelled    *)
(* does stop.                                                              *)
(***************************************************************************)
AudioEnded == audioPc \in {"idle", "done", "error"}

C20_Step ==
    /\ (wsState = "CLOSED" /\ audioPc # "sleep") => audioPc' # "sleep"
    /\ wsState = "CLOSED" =>
          /\ sent' = sent /\ arrivals' = arrivals /\ callbacks' = callbacks
          /\ AudioEnded => audioPc' = audioPc

C20_State ==
    /\ (wsState = "CLOSED" /\ ~AudioEnded) => ENABLED AudioStep
    /\ runPc = "done" => wsState = "CLOSED"

C20_Live ==
    /\ (runPc = "closing") ~> (wsState = "CLOSED" /\ runPc = "done")
    /\ (wsState = "CLOSED") ~> AudioEnded
    /\ cancelled ~> AudioEnded

C20_Cancellation == []C20_State /\ [][C20_Step]_vars /\ C20_Live

\* run() cancelled the running audio task and closed; the loop, asleep
\* then, woke up, saw connected = false and ended
C20_Witness ==
    /\ runPc = "done" /\ cancelled /\ wsState = "CLOSED"
    /\ loopExit = "closed" /\ AudioEnded /\ Len(sent) = 1

(***************************************************************************)
(* C21.  The diagnostic counters carry no protocol semantics.  They are    *)
(* only incremented, each by the event it counts (and read for the frame   *)
(* file name, the log and the statistics run() reports).  A session whose  *)
(* counters stand at other values handles every message the same way: the  *)
(* same outcome, the same callback, the same release of doneLatch; what    *)
(* each thread can do next does not depend on a counter; and whatever the  *)
(* counters, the messages sent are the audio in order and then `end`, the  *)
(* callbacks are those of the valid messages in arrival order, and the     *)
(* session completes on the first marker or close.                         *)
(***************************************************************************)
CounterShifts == {1, 24, 25}

C21_Counted ==
    /\ videoFramesReceived' - videoFramesReceived =
          Count(outcomes', "video") - Count(outcomes, "video")
    /\ audioChunksReceived' - audioChunksReceived =
          Count(outcomes', "audio") - Count(outcomes, "audio")
    /\ audioChunksSent' - audioChunksSent = Len(SentChunks') - Len(SentChunks)

C21_SameHandling ==
    (Len(arrivals') = Len(arrivals) + 1 /\ Last(arrivals').kind = "binary") =>
        \A d \in CounterShifts :
            LET h == Handle(Last(arrivals').data, videoFramesReceived + d,
                            audioChunksReceived + d)
            IN  /\ Last(outcomes') = h.outcome
                /\ callbacks' = callbacks \o Invoked(h)
                /\ doneLatch' = (doneLatch \/ h.outcome = "eos")
                /\ videoFramesReceived' + d = h.video
                /\ audioChunksReceived' + d = h.audio

C21_Guards ==
    /\ (ENABLED AudioStep) <=> AudioRunning
    /\ (ENABLED RunStep) <=>
          \/ runPc \in {"start", "connecting", "check", "await", "close"}
          \/ runPc = "closing" /\ closeLatch
    /\ \A m \in CounterMsgs :
          (ENABLED OnMessageBinary(m)) <=>
              (wsState = "OPEN" /\ Len(arrivals) < MaxInbound)

C21_State ==
    /\ C21_Guards
    /\ C1_StreamThenEnd
    /\ C3_DispatchOrder
    /\ doneLatch <=> (Count(outcomes, "eos") > 0 \/ wsState = "CLOSED")
    /\ finished => doneLatch

C21_CountersInert ==
    []C21_State /\ [][C21_Counted /\ C21_SameHandling]_vars

\* a session whose counters began at 24 streamed two chunks, wrote its one
\* video frame to frame_25.jpg and logged it, and completed on the marker
C21_Witness ==
    /\ runPc = "done" /\ finished /\ audioPc = "done"
    /\ videoFramesReceived = 25 /\ audioChunksSent = 26
    /\ diag = << [file |-> 25, logged |-> TRUE] >>
    /\ Len(callbacks) = 2
    /\ callbacks[1].cb = "video" /\ callbacks[2].cb = "eos"

(***************************************************************************)
(* C22.  Text messages are status events only.  The delivery of a text     *)
(* message, JSON or not, is logged as a status or as non-JSON text and     *)
(* changes nothing else: no callback, no counter, no latch (the session    *)
(* neither completes nor fails), no exception out of onMessage, run() and  *)
(* the audio task as they were; and the binary messages around it are      *)
(* dispatched, each valid one to its one callback, in arrival order.       *)
(***************************************************************************)
IsText(a) == a.kind = "text"

C22_Step ==
    (Len(arrivals') = Len(arrivals) + 1 /\ IsText(Last(arrivals'))) =>
        /\ Last(outcomes') \in {"status", "non_json"}
        /\ UNCHANGED <<callbacks, videoFramesReceived, audioChunksReceived,
                       diag, wsState, latchVars, runVars, audioVars>>

C22_State ==
    /\ \A i \in 1..Len(arrivals) :
          IsText(arrivals[i]) =>
              /\ CallbacksFrom(i) = <<>>
              /\ outcomes[i] = "status" <=>
                    /\ gsonFromJson(arrivals[i].text).kind = "object"
                    /\ gsonFromJson(arrivals[i].text).type # "null"
    /\ C3_DispatchOrder
    /\ (wsState = "OPEN" /\ Len(arrivals) < MaxInbound) =>
          \A m \in LiveMsgs : ENABLED OnMessageBinary(m)
    /\ doneLatch <=> (Count(outcomes, "eos") > 0 \/ wsState = "CLOSED")

C22_TextIsStatusOnly == [][C22_Step]_vars /\ []C22_State

\* text that is no JSON, then an error status, then a video frame: the frame
\* is dispatched, run() still waits on the open connection
C22_Witness ==
    /\ Len(arrivals) = 3
    /\ IsText(arrivals[1]) /\ outcomes[1] = "non_json"
    /\ IsText(arrivals[2]) /\ outcomes[2] = "status"
    /\ arrivals[2].text = "{\"type\":\"error\",\"message\":\"engine failed\"}"
    /\ callbacks # <<>> /\ Last(callbacks).cb = "video"
    /\ Last(callbacks).from = 3
    /\ runPc = "await" /\ ~doneLatch /\ wsState = "OPEN"

(***************************************************************************)
(* C23.  Server audio forwarding: every audio chunk the server session     *)
(* receives is pushed to the engine as it is, after the chunks pushed      *)
(* before it, and nothing else is pushed; so in Receiving Audio, Flushing  *)
(* and Awaiting Completion the engine holds the chunks of the utterance,   *)
(* all of them, in the order the client sent them, and their bytes are     *)
(* one unbroken stretch of the client's audio.                             *)
(***************************************************************************)
\* the index of the last control signal among the first n - 1 messages
\* received, 0 if there is none
ControlBefore(n) ==
    LET S == { i \in 1..(n - 1) :
                 Consumed[i] \in {EndSignal, InterruptSignal} }
    IN  IF S = {} THEN 0 ELSE CHOOSE i \in S : \A j \in S : j <= i

\* the chunks of the utterance in progress, as the client sent them
UtteranceChunks ==
    LET last == ControlBefore(Len(Consumed) + 1)
        Audio(m) == IsBinary(m) /\ ~Malformed(m)
        block == IF srvState = "Receiving"
                 THEN SubSeq(Consumed, last + 1, Len(Consumed))
                 ELSE SubSeq(Consumed, ControlBefore(last) + 1, last - 1)
        chunks == SelectSeq(block, Audio)
    IN  [i \in 1..Len(chunks) |-> chunks[i].data]

C23_State ==
    IF srvState \in {"Receiving", "Flushing", "Awaiting"}
    THEN /\ engineIn = UtteranceChunks
         /\ engineIn # <<>>
         /\ SegNorm(Flatten(engineIn)) =
               Pcm(engineIn[1][1].off, Len(engineIn) * BYTES_PER_CHUNK)
    ELSE engineIn = <<>>

C23_Step ==
    /\ (~ScriptDone /\ script'.at = script.at + 1 /\ IsBinary(NextMsg)) =>
          engineIn' = Append(engineIn, NextMsg.data)
    /\ engineIn' # engineIn =>
          \/ engineIn' = <<>>
          \/ ~ScriptDone /\ script'.at = script.at + 1 /\ IsBinary(NextMsg)

C23_AudioForwarded == []C23_State /\ [][C23_Step]_vars

\* after an interrupted utterance of one chunk, the engine holds the second
\* and the third chunk, those of the new utterance
C23_Witness ==
    /\ script.at = 5 /\ srvState = "Receiving"
    /\ script.msgs[2] = InterruptSignal
    /\ engineIn = << ScriptChunk(2).data, ScriptChunk(3).data >>

(***************************************************************************)
(* C24.  Server output order: the server sends the engine's outputs in     *)
(* the order the engine yields them, each as it is yielded, and nothing    *)
(* else but markers; it sends an EndOfSpeechMarker only when the engine    *)
(* signals the utterance complete in Awaiting Completion, that is after    *)
(* an `end`, with every output of the utterance sent before the marker     *)
(* and none after it, and is Idle from then on.                            *)
(***************************************************************************)
\* what the server has sent, in order: delivered or still in flight
Stream == [i \in 1..Len(arrivals) |-> arrivals[i].data] \o wire

\* the last n elements of s
Suffix(s, n) == SubSeq(s, Len(s) - n + 1, Len(s))

C24_State ==
    /\ Len(engineOut) = srvFrames /\ srvFrames <= Len(Stream)
    /\ Suffix(Stream, srvFrames) = engineOut
    /\ srvState = "Idle" => engineOut = <<>>
    /\ EosSent <= Count(Consumed, EndSignal)

C24_Step ==
    /\ Stream' # Stream =>
          \/ /\ srvState \in {"Receiving", "Flushing", "Awaiting"}
             /\ srvState' = srvState
             /\ \E m \in {SessionVideo, SessionAudio} :
                   /\ engineOut' = Append(engineOut, m)
                   /\ Stream' = Append(Stream, m)
          \/ /\ srvState = "Awaiting" /\ srvState' = "Idle"
             /\ Stream' = Append(Stream, EncodeEndOfSpeech)
             /\ engineOut' = <<>>
    /\ (srvState = "Awaiting" /\ srvState' # srvState) =>
          srvState' \in {"Idle", "Interrupted"}

C24_OutputOrder == []C24_State /\ [][C24_Step]_vars

\* a video frame and an audio chunk, yielded in that order, reached the
\* client in that order, the marker after them
C24_Witness ==
    /\ IsHappy /\ srvState = "Idle" /\ wire = <<>>
    /\ Stream = <<SessionVideo, SessionAudio, EncodeEndOfSpeech>>
    /\ Len(callbacks) = 3 /\ callbacks[1].cb = "video"
    /\ callbacks[2].cb = "audio" /\ callbacks[3].cb = "eos"

(***************************************************************************)
(* C25.  Server tolerance of malformed client messages: the receipt of a   *)
(* message that fails validation (text that is no JSON, a binary message   *)
(* that is no audio) changes nothing in the server session and sends       *)
(* nothing; the connection stays open; and the messages around it are      *)
(* processed as if it had not been sent: every message is received, the    *)
(* engine holds the utterance's audio and nothing else, and a chunk and    *)
(* an `end` with a malformed message anywhere among them run the happy     *)
(* path and bring the marker to the client.                                *)
(***************************************************************************)
IsHappyBut == WellFormedOnly(script.msgs) = HappyScript

C25_Step ==
    (~ScriptDone /\ script'.at = script.at + 1 /\ Malformed(NextMsg)) =>
        UNCHANGED <<srvState, srvHist, engineIn, srvFrames, engineOut, wire,
                    wsState, latchVars, inboundVars>>

C25_State ==
    /\ wsState = "OPEN" /\ connected
    /\ C23_State
    /\ EosSent <= Count(Consumed, EndSignal)
    /\ IsHappyBut => IsPrefix(srvHist, HappyStates)

C25_Live ==
    /\ <>ScriptDone
    /\ IsHappyBut ~>
          (srvHist = HappyStates /\ srvState = "Idle" /\ EosReceived >= 1)

C25_MalformedIgnored == [][C25_Step]_vars /\ []C25_State /\ C25_Live

\* text that is no JSON came between the chunk and its `end`: the utterance
\* completed and the client has the marker
C25_Witness ==
    /\ script.msgs = <<ScriptChunk(1), MalformedText, EndSignal>>
    /\ ScriptDone /\ srvHist = HappyStates /\ EosReceived = 1
    /\ wsState = "OPEN"

(***************************************************************************)
(* C26.  Fatal engine error: in whatever state the engine fails, the       *)
(* session ends there and stays ended: it receives nothing more, pushes    *)
(* and sends nothing more, so no EndOfSpeechMarker for the utterance that  *)
(* failed and no continuation of it; the server closes the transport,      *)
(* which the client sees as a close after the messages sent before the     *)
(* failure; and the server closes for no other reason.                     *)
(***************************************************************************)
\* the state the session was in when the engine failed
FailedIn == srvHist[Len(srvHist) - 1]

C26_Step ==
    /\ srvState = "Failed" =>
          /\ UNCHANGED <<srvState, srvHist, script, engineIn, srvFrames,
                         engineOut>>
          /\ Stream' = Stream
    /\ (srvState # "Failed" /\ srvState' = "Failed") => Stream' = Stream

C26_State ==
    /\ wsState # "OPEN" => srvState = "Failed" /\ wire = <<>>
    /\ (srvState = "Failed" /\ FailedIn \in {"Flushing", "Awaiting"}) =>
          EosSent < Count(Consumed, EndSignal)
    /\ EosSent <= Count(Consumed, EndSignal)
    /\ srvState \in {"Idle", "Receiving", "Flushing", "Awaiting",
                     "Interrupted"} => ENABLED EngineFail

C26_Live == (srvState = "Failed") ~> (wsState = "CLOSED" /\ ~connected)

C26_FatalEngineError == [][C26_Step]_vars /\ []C26_State /\ C26_Live

\* the engine failed after the `end` and one video frame: the client got
\* the frame and then the close, and no marker
C26_Witness ==
    /\ srvState = "Failed" /\ FailedIn = "Awaiting"
    /\ wsState = "CLOSED" /\ ScriptDone
    /\ videoFramesReceived = 1 /\ EosReceived = 0 /\ EosSent = 0

(***************************************************************************)
(* C27.  run() terminates once connected.  Its wait ends on the first of   *)
(* a marker, a close of the transport (both release doneLatch) and the     *)
(* timeout; run() then calls closeBlocking, once, and returns with the     *)
(* transport closed: the statements of run() are passed in order, none     *)
(* twice.  doneLatch, once released, stays released, and a further marker  *)
(* or a close after the release changes nothing in run().                  *)
(***************************************************************************)
\* the statements of run() in program order
RunOrder(pc) ==
    CASE pc = "start" -> 0
      [] pc = "connecting" -> 1
      [] pc = "check" -> 2
      [] pc \in {"await", "failed"} -> 3
      [] pc = "close" -> 4
      [] pc = "closing" -> 5
      [] OTHER -> 6

\* a release of doneLatch is attempted: a marker is dispatched or onClose runs
Releasing ==
    \/ Count(outcomes', "eos") > Count(outcomes, "eos")
    \/ wsState' = "CLOSED" /\ wsState # "CLOSED"

C27_Step ==
    /\ runPc' # runPc => RunOrder(runPc') > RunOrder(runPc)
    /\ runPc' = "closing" => runPc \in {"close", "closing"}
    /\ Releasing => doneLatch' /\ UNCHANGED runVars
    /\ doneLatch => doneLatch'
    /\ doneLatch' # doneLatch => Releasing
    /\ finished' # finished => runPc = "await" /\ doneLatch

C27_State ==
    /\ doneLatch <=> (Count(outcomes, "eos") > 0 \/ wsState = "CLOSED")
    /\ finished => doneLatch
    /\ runPc = "done" => wsState = "CLOSED" /\ closeLatch

C27_Live == (runPc = "await") ~> (runPc = "done")

C27_RunTerminates == [][C27_Step]_vars /\ []C27_State /\ C27_Live

\* two markers were dispatched, the second one to a latch already released,
\* and the close of run() released it once more: run() closed and returned
C27_Witness ==
    /\ runPc = "done" /\ finished /\ wsState = "CLOSED"
    /\ Count(outcomes, "eos") = 2 /\ cancelled

(***************************************************************************)
(* C28, as claimed.  The client closes the transport only after it has     *)
(* sent `end`, unless its wait timed out or the peer closed: when run()    *)
(* calls closeBlocking on an open transport after a wait that ended with   *)
(* the latch released, `end` has been sent.                                *)
(***************************************************************************)
C28_ClosesAfterEnd ==
    [][(runPc = "close" /\ runPc' = "closing" /\ wsState = "OPEN" /\ finished)
          => EndsSent = 1]_vars

(***************************************************************************)
(* C28, amended.  The client closes the transport when the wait of run()   *)
(* has ended, whatever the audio task has sent: run() leaves its wait as   *)
(* soon as doneLatch is released (or on the timeout) and goes on to        *)
(* closeBlocking without waiting for the audio task; only run() and the    *)
(* peer end the open state; and once the transport is no longer open       *)
(* nothing is sent, so a marker that arrives while chunks are still being  *)
(* streamed ends the session and the chunks and the `end` not yet sent     *)
(* are never sent.                                                         *)
(***************************************************************************)
C28_State ==
    /\ (runPc = "await" /\ doneLatch) => ENABLED RunAwaitDone
    /\ runPc = "close" => ENABLED RunClose
    /\ finished => doneLatch

C28_Step ==
    /\ wsState \in {"CLOSING", "CLOSED"} => sent' = sent
    /\ (wsState = "OPEN" /\ wsState' # "OPEN") =>
          \/ runPc = "close" /\ runPc' = "closing"
          \/ UNCHANGED runVars
    /\ (runPc = "await" /\ runPc' = "close") => (finished' <=> doneLatch)

C28_Live ==
    (runPc = "await" /\ doneLatch /\ AudioRunning) ~>
        (runPc = "done" /\ AudioEnded)

C28_ClosesWhenWaitEnds == []C28_State /\ [][C28_Step]_vars /\ C28_Live

\* the marker came after the first of two chunks: run() closed and returned,
\* the second chunk and the `end` were never sent
C28_Witness ==
    /\ runPc = "done" /\ finished /\ cancelled /\ AudioEnded
    /\ Count(outcomes, "eos") = 1
    /\ pcmLen = MaxChunks * BYTES_PER_CHUNK
    /\ Len(SentChunks) = 1 /\ EndsSent = 0

(***************************************************************************)
(* C29.  A failure of the audio task is only logged.  The step in which    *)
(* the task fails (the audio file cannot be decoded, or a send throws)     *)
(* sends nothing and changes nothing of run(), of the latches or of the    *)
(* transport; a failed task has sent no `end` and sends nothing more;      *)
(* run() does not fail: it leaves its wait only because doneLatch was      *)
(* released by a marker or by a close of the transport, or on the          *)
(* timeout, and then reports the session complete as in the normal case.   *)
(***************************************************************************)
\* the audio task fails in this step
AudioFails == audioPc # "error" /\ audioPc' = "error"

C29_Step ==
    /\ AudioFails =>
          /\ sent' = sent
          /\ UNCHANGED <<runVars, wsState, latchVars, inboundVars>>
    /\ audioPc = "error" => audioPc' = "error" /\ sent' = sent
    /\ (audioPc = "error" /\ runPc = "await" /\ runPc' # "await") =>
          /\ runPc' = "close"
          /\ finished' <=> doneLatch
          /\ finished' <=> (Count(outcomes, "eos") > 0 \/ wsState = "CLOSED")

C29_State ==
    /\ audioPc = "error" => EndsSent = 0 /\ runPc \in {"await", "close",
                                                       "closing", "done"}
    /\ (audioPc = "error" /\ runPc = "await") =>
          (doneLatch <=> (Count(outcomes, "eos") > 0 \/ wsState = "CLOSED"))
    /\ audioPc = "load" => ENABLED AudioLoadFail

C29_Live == (audioPc = "error") ~> (RunResult = "Session complete")

C29_AudioFailureLogged == [][C29_Step]_vars /\ []C29_State /\ C29_Live

\* the audio file could not be decoded: nothing was sent, no marker came and
\* the peer did not close; run() timed out, closed and reported the session
C29_Witness ==
    /\ audioPc = "error" /\ ~SendFailed /\ pcmLen > 0 /\ sent = <<>>
    /\ RunResult = "Session complete" /\ TimedOut
    /\ Count(outcomes, "eos") = 0 /\ videoFramesReceived = 1

(***************************************************************************)
(* C30.  Trailing bytes are tolerated.  A 0x01 or 0x02 message with a      *)
(* complete header that carries more bytes than the payload length it      *)
(* declares is accepted: its callback is invoked once, with exactly the    *)
(* declared number of payload bytes, the first ones after the header, and  *)
(* with everything else as for the same message cut at its declared        *)
(* length, so the rest is ignored.  A 0x03 message with bytes after the    *)
(* tag is dispatched as end-of-speech.                                     *)
(***************************************************************************)
\* b has a complete header of h bytes after the tag, whose length field at p
\* declares fewer bytes than follow the header
CarriesMore(b, h, p) ==
    /\ Len(b) >= 1 + h
    /\ ~U32Greater(U32At(b, p), Len(b) - (1 + h) - 1)

TrailingVideo(b) == b[1] = 1 /\ CarriesMore(b, VIDEO_HEADER_REST, 10)
TrailingAudio(b) == b[1] = 2 /\ CarriesMore(b, AUDIO_HEADER_REST, 7)
TrailingEos(b) == b[1] = 3 /\ Len(b) > 1

\* the bytes b carries beyond its header of h bytes and n declared ones
Trailing(b, h, n) == SubSeq(b, 1 + h + n + 1, Len(b))

\* the callback of arrival i got the n bytes after the header of h bytes, and
\* is the callback the message without its trailing bytes gives
GotDeclared(i, kind, h, p) ==
    LET b == arrivals[i].data
        n == U32At(b, p).lo
        cbs == CallbacksFrom(i)
        cut == onMessageBinary(SubSeq(b, 1, 1 + h + n))
    IN  /\ outcomes[i] = kind
        /\ Len(cbs) = 1 /\ cbs[1].cb = kind
        /\ Len(cbs[1].data) = n
        /\ \A k \in 1..n : cbs[1].data[k] = b[1 + h + k]
        /\ b = SubSeq(b, 1, 1 + h) \o cbs[1].data \o Trailing(b, h, n)
        /\ Len(Trailing(b, h, n)) >= 1
        /\ Len(cut.cbs) = 1
        /\ cbs[1] = [from |-> i] @@ cut.cbs[1]

C30_TrailingBytesTolerated ==
    \A i \in 1..Len(arrivals) :
        (arrivals[i].kind = "binary" /\ Len(arrivals[i].data) >= 1) =>
            LET b == arrivals[i].data
            IN  /\ TrailingVideo(b) =>
                      /\ GotDeclared(i, "video", VIDEO_HEADER_REST, 10)
                      /\ videoFramesReceived >= 1
                /\ TrailingAudio(b) =>
                      /\ GotDeclared(i, "audio", AUDIO_HEADER_REST, 7)
                      /\ audioChunksReceived >= 1
                /\ TrailingEos(b) =>
                      /\ outcomes[i] = "eos" /\ doneLatch
                      /\ CallbacksFrom(i) = << [from |-> i, cb |-> "eos"] >>

\* a video message that declares one payload byte and carries two: the
\* callback got the first of them
C30_Witness ==
    /\ Len(arrivals) = 1
    /\ Len(arrivals[1].data) = 1 + VIDEO_HEADER_REST + 2
    /\ TrailingVideo(arrivals[1].data)
    /\ Len(callbacks) = 1 /\ callbacks[1].data = <<255>>
    /\ arrivals[1].data[23] = 0

(***************************************************************************)
(* Vocabulary of the LiveKit UI properties                                 *)
(***************************************************************************)
\* the places in uiLog of the events ev
EventsOf(ev) == { k \in 1..Len(uiLog) : uiLog[k].ev = ev }

\* no disconnect between the places i and j of uiLog
NoDisconnectBetween(i, j) == \A k \in EventsOf("disconnect") : k < i \/ k > j

(***************************************************************************)
(* C31, as claimed.  Duplicate and parallel requests are prevented: of any *)
(* two calls of connect with the same mode and no disconnect between       *)
(* them, at most one issues a token fetch and at most one sets the         *)
(* connection details.                                                     *)
(***************************************************************************)
C31_NoParallelRequests ==
    \A i, j \in EventsOf("connect") :
        (i < j /\ uiLog[i].mode = uiLog[j].mode /\ NoDisconnectBetween(i, j))
            => /\ Cardinality({ k \in EventsOf("fetch") :
                                  uiLog[k].call \in {i, j} }) <= 1
               /\ Cardinality({ k \in EventsOf("set") :
                                  uiLog[k].call \in {i, j} }) <= 1

(***************************************************************************)
(* C32, as claimed.  Auto-connect runs when the component mounts: the      *)
(* auto-connect effect calls connect at most once per mount; and after a   *)
(* disconnect, until a consumer calls connect again, connect is not        *)
(* called, no connection is set and shouldConnect stays false, also when   *)
(* a token fetch issued before the disconnect resolves after it.           *)
(***************************************************************************)
\* the user has not asked to connect after place k and up to place e
NotAskedBetween(k, e) ==
    \A u \in EventsOf("connect") : uiLog[u].by = "user" => u < k \/ u > e

C32_OncePerMount ==
    Cardinality({ k \in EventsOf("connect") : uiLog[k].by = "auto" }) <= 1

\* the disconnect at place k reset a connection that was set
ResetsConnection(k) ==
    /\ k \in EventsOf("disconnect")
    /\ \E c \in EventsOf("set") : c < k /\ NoDisconnectBetween(c, k - 1)

C32_StaysDisconnected ==
    \A k \in { d \in 1..Len(uiLog) : ResetsConnection(d) } :
        /\ \A e \in (k + 1)..Len(uiLog) :
              NotAskedBetween(k, e) => uiLog[e].ev \notin {"connect", "set"}
        /\ NotAskedBetween(k, Len(uiLog)) => ~connectionDetails.shouldConnect

C32_AutoConnectOnMount == C32_OncePerMount /\ C32_StaysDisconnected

(***************************************************************************)
(* C33.  pollUntilReady terminates after at most 60 status polls.  It      *)
(* returns the status as soon as a poll reports ready or failed, returns   *)
(* "timeout" after exactly 60 polls that report neither, and returns       *)
(* nothing else (a failed request leaves it with an exception); main()     *)
(* goes on to the later API calls only when the result is "ready".         *)
(***************************************************************************)
\* the status polls made so far
Polls ==
    Cardinality({ k \in 1..Len(apiCalls) :
                    apiCalls[k] = "GET /v1/agent/status/{id}" })

\* the answers that report ready, failed
ReportsReady == { BodyReady }
ReportsFailed == { BodyFailed }

\* pollUntilReady has returned
PollReturned ==
    \/ mainPc \in {"polled", "later", "done"}
    \/ mainPc = "returned" /\ Polls > 0

C33_State ==
    /\ Polls <= 60
    /\ mainPc = "poll" => Polls = pollI
    /\ mainPc = "sleep" => Polls = pollI + 1 /\ pollI < 60
    /\ PollReturned =>
          /\ pollStatus \in {Str(READY), Str(FAILED), Str(TIMEOUT)}
          /\ pollStatus = Str(TIMEOUT) <=> Polls = 60 /\ pollI = 60
          /\ pollStatus # Str(TIMEOUT) => Polls = pollI + 1
    /\ mainPc = "polled" =>
          /\ pollStatus = Str(READY) <=> httpBody \in ReportsReady
          /\ pollStatus = Str(FAILED) <=> httpBody \in ReportsFailed
    /\ (LaterMade > 0 \/ mainPc \in {"later", "done"}) =>
          pollStatus = Str(READY) /\ Polls >= 1

C33_Step ==
    /\ Polls' # Polls =>
          /\ Polls' = Polls + 1 /\ mainPc = "poll"
          /\ httpBody' \in ReportsReady =>
                mainPc' = "polled" /\ pollStatus' = Str(READY)
          /\ httpBody' \in ReportsFailed =>
                mainPc' = "polled" /\ pollStatus' = Str(FAILED)
          /\ httpBody' \notin ReportsReady \cup ReportsFailed =>
                mainPc' = "sleep"
    /\ (mainPc = "polled" /\ mainPc' # "polled") =>
          /\ pollStatus' = pollStatus
          /\ mainPc' = IF pollStatus = Str(READY) THEN "later" ELSE "returned"
    /\ mainPc \in {"returned", "thrown", "done"} => UNCHANGED restVars

C33_Live ==
    (mainPc = "poll") ~> (PollReturned \/ mainPc = "thrown")

C33_PollTerminates == []C33_State /\ [][C33_Step]_vars /\ C33_Live

\* 60 polls reported neither ready nor failed, the last one a status
\* "timeout": pollUntilReady returned "timeout" and main() returned
C33_Witness ==
    /\ mainPc = "returned" /\ pollStatus = Str(TIMEOUT)
    /\ Polls = 60 /\ httpBody = BodyTimeout /\ LaterMade = 0

(***************************************************************************)
(* C34.  A zero-length binary message is ignored: onMessage returns at     *)
(* its first test, before it reads a tag; no callback is invoked, nothing  *)
(* is thrown, and the step changes nothing of the session (run(), the      *)
(* transport, the latches, the audio task, the counters).                  *)
(***************************************************************************)
IsEmptyMessage(a) == a.kind = "binary" /\ a.data = <<>>

C34_State ==
    \A i \in 1..Len(arrivals) :
        IsEmptyMessage(arrivals[i]) =>
            outcomes[i] = "empty" /\ CallbacksFrom(i) = <<>>

C34_Step ==
    (Len(arrivals') = Len(arrivals) + 1 /\ IsEmptyMessage(Last(arrivals')))
        => UNCHANGED <<runVars, wsState, latchVars, audioVars, callbacks,
                       videoFramesReceived, audioChunksReceived, diag, wsVars>>

C34_EmptyMessageIgnored == []C34_State /\ [][C34_Step]_vars

\* an empty message arrived between a video frame and an audio chunk, while
\* the audio task was sending
C34_Witness ==
    /\ Len(arrivals) = 3 /\ IsEmptyMessage(arrivals[2])
    /\ outcomes = <<"video", "empty", "audio">>
    /\ videoFramesReceived = 1 /\ audioChunksReceived = 1
    /\ Len(callbacks) = 2 /\ Len(sent) = 1

(***************************************************************************)
(* C35, as claimed.  Counter consistency: at every point audioChunksSent   *)
(* is the number of binary messages the send loop has sent,                *)
(* videoFramesReceived the number of on_video_frame invocations and        *)
(* audioChunksReceived the number of on_audio_chunk invocations.           *)
(***************************************************************************)
\* the invocations of the callback cb so far
Invocations(cb) ==
    Cardinality({ k \in 1..Len(callbacks) : callbacks[k].cb = cb })

C35_CountersExact ==
    /\ audioChunksSent = Len(SentChunks)
    /\ videoFramesReceived = Invocations("video")
    /\ audioChunksReceived = Invocations("audio")

(***************************************************************************)
(* C35, amended.  audioChunksSent is the number of binary messages the     *)
(* send loop has sent, or one less while the audio task stands between     *)
(* ws.send and the increment; it never runs ahead.  videoFramesReceived    *)
(* and audioChunksReceived are the numbers of on_video_frame and           *)
(* on_audio_chunk invocations, and a message that is dropped (empty,       *)
(* truncated, unknown tag) changes no counter.                             *)
(***************************************************************************)
C35_State ==
    /\ audioChunksSent =
          Len(SentChunks) - (IF audioPc = "count" THEN 1 ELSE 0)
    /\ videoFramesReceived = Invocations("video")
    /\ audioChunksReceived = Invocations("audio")
    /\ videoFramesReceived = Count(outcomes, "video")
    /\ audioChunksReceived = Count(outcomes, "audio")

C35_Step ==
    /\ (Len(outcomes') = Len(outcomes) + 1
          /\ Last(outcomes') \notin {"video", "audio"})
          => UNCHANGED <<videoFramesReceived, audioChunksReceived,
                         audioChunksSent>>
    /\ audioChunksSent' # audioChunksSent =>
          /\ audioChunksSent' = audioChunksSent + 1
          /\ audioPc = "count" /\ sent' = sent

C35_CountersConsistent == []C35_State /\ [][C35_Step]_vars

\* run() has logged its statistics while the audio task stood between the
\* send of its second chunk and the increment: two chunks sent, one counted;
\* of three messages received one was an unknown tag and one a frame
C35_Witness ==
    /\ runPc = "done" /\ audioPc = "count"
    /\ Len(SentChunks) = 2 /\ audioChunksSent = 1
    /\ Len(arrivals) = 3 /\ Count(outcomes, "unknown_tag") = 1
    /\ videoFramesReceived = 1 /\ audioChunksReceived = 0

=============================================================================
